---- MODULE Spec2Model ----
(***************************************************************************)
(* OblivionFilter python proxy: the traffic filtering pipeline of          *)
(* src/native/proxy/python-proxy/main.py as a state machine.               *)
(*                                                                         *)
(* Python strings are TLA+ strings; a character is a string of length 1.   *)
(* An Optional[str] field is a string: None and '' are both falsy in       *)
(* Python and the code only ever tests such fields for truthiness, so both *)
(* are the empty string here.  An Optional[Dict] is <<>> for None and      *)
(* <<d>> for the mapping d, a function from header names to values.        *)
(***************************************************************************)
EXTENDS Integers, Sequences, FiniteSets, TLC

\* ------------------------------------------------------------------------
\* Python string primitives
\* ------------------------------------------------------------------------

\* s[i-1] of Python: the i-th character, a string of length 1
Ch(s, i) == SubSeq(s, i, i)

\* s[a-1:b] of Python: a slice never fails, it is clipped to the string
Slice(s, a, b) ==
    LET lo == IF a < 1 THEN 1 ELSE a
        hi == IF b > Len(s) THEN Len(s) ELSE b
    IN  IF lo > hi THEN "" ELSE SubSeq(s, lo, hi)

\* s[i-1:] of Python
Tail_(s, i) == Slice(s, i, Len(s))

\* `p in s` for strings: p occurs in s as a contiguous substring
StrIn(p, s) ==
    \E i \in 1..(Len(s) - Len(p) + 1) : Slice(s, i, i + Len(p) - 1) = p

UpperCaseLetters == "ABCDEFGHIJKLMNOPQRSTUVWXYZ"
LowerCaseLetters == "abcdefghijklmnopqrstuvwxyz"

\* position of the character c in the string s, 0 when absent
IndexOf(c, s) ==
    IF \E i \in 1..Len(s) : Ch(s, i) = c
    THEN CHOOSE i \in 1..Len(s) : Ch(s, i) = c
    ELSE 0

LowerCh(c) ==
    IF IndexOf(c, UpperCaseLetters) > 0
    THEN Ch(LowerCaseLetters, IndexOf(c, UpperCaseLetters))
    ELSE c

UpperCh(c) ==
    IF IndexOf(c, LowerCaseLetters) > 0
    THEN Ch(UpperCaseLetters, IndexOf(c, LowerCaseLetters))
    ELSE c

RECURSIVE StrLower(_)
\* str.lower()
StrLower(s) ==
    IF Len(s) = 0 THEN s ELSE LowerCh(Ch(s, 1)) \o StrLower(Tail_(s, 2))

RECURSIVE StrUpper(_)
\* str.upper()
StrUpper(s) ==
    IF Len(s) = 0 THEN s ELSE UpperCh(Ch(s, 1)) \o StrUpper(Tail_(s, 2))

\* ------------------------------------------------------------------------
\* urllib.parse.urlparse, as far as should_block reads it (netloc, path)
\* ------------------------------------------------------------------------

SchemeChars == "abcdefghijklmnopqrstuvwxyzABCDEFGHIJKLMNOPQRSTUVWXYZ0123456789+-."

\* smallest position >= from of a character of the string `stops` in s,
\* Len(s) + 1 when there is none
FirstOf(s, stops, from) ==
    IF \E i \in from..Len(s) : IndexOf(Ch(s, i), stops) > 0
    THEN CHOOSE i \in from..Len(s) :
            /\ IndexOf(Ch(s, i), stops) > 0
            /\ \A j \in from..(i - 1) : IndexOf(Ch(s, j), stops) = 0
    ELSE Len(s) + 1

\* the url with its scheme and the ':' after it removed, when it has a scheme
AfterScheme(url) ==
    LET c == FirstOf(url, ":", 1)
    IN  IF /\ c > 1
           /\ c <= Len(url)
           /\ IndexOf(Ch(url, 1), UpperCaseLetters \o LowerCaseLetters) > 0
           /\ \A i \in 1..(c - 1) : IndexOf(Ch(url, i), SchemeChars) > 0
        THEN Tail_(url, c + 1)
        ELSE url

\* urlparse(url).netloc: what follows '//' up to the first '/', '?' or '#'
UrlNetloc(url) ==
    LET rest == AfterScheme(url)
    IN  IF Slice(rest, 1, 2) = "//"
        THEN Slice(rest, 3, FirstOf(rest, "/?#", 3) - 1)
        ELSE ""

\* urlparse(url).path: what follows the netloc up to the first '?' or '#'
\* (';params' of the last segment are split off by urlparse as well)
UrlPath(url) ==
    LET rest  == AfterScheme(url)
        start == IF Slice(rest, 1, 2) = "//" THEN FirstOf(rest, "/?#", 3) ELSE 1
        whole == Slice(rest, start, FirstOf(rest, "?#", start) - 1)
    IN  whole

\* ------------------------------------------------------------------------
\* Python `re`, for the patterns the model uses.  The grammar covered is
\*     pattern ::= ['^'] item* ['$']      item ::= atom ['*']
\*     atom    ::= '.' | '\' char | a character that is no metacharacter
\* which holds every pattern of load_default_rules and of RuleUniverse.
\* ------------------------------------------------------------------------

\* the characters add_rule and should_block take as the sign of a regex
RegexMetaChars == ".*+?^${}()|[]\\"

\* any(char in pattern for char in '.*+?^${}()|[]\\')
HasMetaChar(pattern) ==
    \E i \in 1..Len(pattern) : IndexOf(Ch(pattern, i), RegexMetaChars) > 0

\* width of the atom that starts at position i of the pattern p
AtomWidth(p, i) == IF Ch(p, i) = "\\" THEN 2 ELSE 1

RECURSIVE RegexWellFormed(_, _, _)
\* re.compile(p) succeeds, reading p from position i on; `prev` says that an
\* atom without a repeat stands before position i.  re.error cases: a '*' with
\* nothing to repeat, a repeated repeat, a '\' at the end of the pattern
RegexWellFormed(p, i, prev) ==
    IF i > Len(p) THEN TRUE
    ELSE IF Ch(p, i) = "*" THEN prev /\ RegexWellFormed(p, i + 1, FALSE)
    ELSE IF Ch(p, i) = "^" THEN RegexWellFormed(p, i + 1, FALSE)
    ELSE IF Ch(p, i) = "$" THEN RegexWellFormed(p, i + 1, FALSE)
    ELSE IF Ch(p, i) = "\\" THEN i < Len(p) /\ RegexWellFormed(p, i + 2, TRUE)
    ELSE RegexWellFormed(p, i + 1, TRUE)

\* re.compile(pattern, re.IGNORECASE) does not raise re.error
RegexCompiles(pattern) == RegexWellFormed(pattern, 1, FALSE)

\* the atom at position i of p matches the character c, under re.IGNORECASE
AtomMatches(p, i, c) ==
    IF Ch(p, i) = "." THEN c # "\n"
    ELSE IF Ch(p, i) = "\\" THEN LowerCh(Ch(p, i + 1)) = LowerCh(c)
    ELSE LowerCh(Ch(p, i)) = LowerCh(c)

RECURSIVE RegexMatchHere(_, _, _, _)
\* the pattern p from position i on matches the string s from position j on
RegexMatchHere(p, i, s, j) ==
    IF i > Len(p) THEN TRUE
    ELSE IF Ch(p, i) = "$" THEN j = Len(s) + 1 /\ RegexMatchHere(p, i + 1, s, j)
    ELSE IF Ch(p, i) = "^" THEN j = 1 /\ RegexMatchHere(p, i + 1, s, j)
    ELSE LET w == AtomWidth(p, i)
         IN  IF i + w <= Len(p) /\ Ch(p, i + w) = "*"
             THEN \E k \in j..(Len(s) + 1) :
                     /\ \A m \in j..(k - 1) : AtomMatches(p, i, Ch(s, m))
                     /\ RegexMatchHere(p, i + w + 1, s, k)
             ELSE /\ j <= Len(s)
                  /\ AtomMatches(p, i, Ch(s, j))
                  /\ RegexMatchHere(p, i + w, s, j + 1)

\* regex.search(url) is not None, for regex = re.compile(pattern, re.IGNORECASE)
RegexSearch(pattern, url) ==
    \E j \in 1..(Len(url) + 1) : RegexMatchHere(pattern, 1, url, j)

\* ------------------------------------------------------------------------
\* FilterRule and the rule store of FilterEngine
\* ------------------------------------------------------------------------

\* Optional[Dict[str, str]]: None is <<>>, the mapping d is <<d>>
NoDict == << >>
SomeDict(d) == << d >>
EmptyDict == [k \in {} |-> ""]

\* bool(d) of Python for an Optional[Dict]: None and {} are falsy
Truthy(d) == d # NoDict /\ DOMAIN d[1] # {}

\* FilterRule(pattern, action, domain=None, path=None, method=None,
\*            content_type=None, headers=None, priority=0, enabled=True,
\*            description="")
FilterRule(pattern, action, domain, path, method, content_type, headers, priority, enabled, description) ==
    [pattern |-> pattern, action |-> action, domain |-> domain, path |-> path,
     method |-> method, content_type |-> content_type, headers |-> headers,
     priority |-> priority, enabled |-> enabled, description |-> description]

\* FilterRule(pattern, "block", description=...) as load_default_rules writes it
DefaultRule(pattern, description) ==
    FilterRule(pattern, "block", "", "", "", "", NoDict, 0, TRUE, description)

\* default_rules of load_default_rules, in its order
DefaultRules == <<
    DefaultRule("doubleclick.net", "Google DoubleClick"),
    DefaultRule("googlesyndication.com", "Google AdSense"),
    DefaultRule("googletagmanager.com", "Google Tag Manager"),
    DefaultRule("google-analytics.com", "Google Analytics"),
    DefaultRule("googleadservices.com", "Google Ad Services"),
    DefaultRule("adsystem.com", "Amazon Ad System"),
    DefaultRule("amazon-adsystem.com", "Amazon Ads"),
    DefaultRule("facebook.com/tr", "Facebook Tracking"),
    DefaultRule("facebook.com/plugins", "Facebook Plugins"),
    DefaultRule("twitter.com/i/adsct", "Twitter Ads"),
    DefaultRule("ads.yahoo.com", "Yahoo Ads"),
    DefaultRule("bing.com/maps/traffic", "Bing Tracking"),
    DefaultRule("connect.facebook.net", "Facebook Connect"),
    DefaultRule("platform.twitter.com", "Twitter Platform"),
    DefaultRule("platform.linkedin.com", "LinkedIn Platform"),
    DefaultRule("apis.google.com/js/plusone", "Google+ Button"),
    DefaultRule("hotjar.com", "Hotjar Analytics"),
    DefaultRule("mixpanel.com", "Mixpanel Analytics"),
    DefaultRule("segment.com", "Segment Analytics"),
    DefaultRule("amplitude.com", "Amplitude Analytics"),
    DefaultRule("fullstory.com", "FullStory Analytics"),
    DefaultRule("loggly.com", "Loggly Logging"),
    DefaultRule("newrelic.com", "New Relic Monitoring"),
    DefaultRule("cdn.ampproject.org", "AMP Project CDN"),
    DefaultRule("pagead2.googlesyndication.com", "Google PageAd"),
    DefaultRule("tpc.googlesyndication.com", "Google TPC"),
    DefaultRule("stats.wp.com", "WordPress Stats"),
    DefaultRule("scorecardresearch.com", "Scorecard Research"),
    DefaultRule("quantserve.com", "Quantcast"),
    DefaultRule("outbrain.com", "Outbrain Content"),
    DefaultRule("taboola.com", "Taboola Content"),
    DefaultRule(".*\\.tk$", "Suspicious .tk domains"),
    DefaultRule(".*\\.ml$", "Suspicious .ml domains"),
    DefaultRule(".*\\.ga$", "Suspicious .ga domains"),
    DefaultRule(".*\\.cf$", "Suspicious .cf domains") >>

\* A configuration file as load_config meets it.  readable: the file opens and
\* parses to a mapping.  whitelist_domains, blacklist_domains: <<S>> when the
\* value makes a set S, <<>> when set(...) raises on it.  rules: a sequence of
\* rule_data, each <<r>> when FilterRule(**rule_data) makes the rule r and <<>>
\* when it raises.
Config(readable, wl, bl, rule_datas) ==
    [readable |-> readable, whitelist_domains |-> wl, blacklist_domains |-> bl,
     rules |-> rule_datas]

DefaultRuleSet == {DefaultRules[k] : k \in 1..Len(DefaultRules)}

\* self.cache_ttl
cache_ttl == 300

\* ------------------------------------------------------------------------
\* Bounds and input sets
\* ------------------------------------------------------------------------

\* rules added beyond those of load_default_rules
MaxRules == 2

\* the clock stops here
MaxTime == 600

\* how far the clock moves in one step
Ticks == {150}

\* a rule with no constraint but those named
Rule(pattern, action, domain, path, enabled) ==
    FilterRule(pattern, action, domain, path, "", "", NoDict, 0, enabled, "")

\* One enabled and one disabled rule per tier, of opposite actions; a rule that
\* is in three indices at once; a rule whose pattern does not compile; a rule
\* with a method constraint no request of the model meets.  The pattern "zz"
\* occurs in no URL of the model.
RuleUniverse ==
    {Rule("zz", "allow", "a", "", TRUE), Rule("zz", "block", "a", "", FALSE),
     Rule("zz", "block", "", "/x", TRUE), Rule("zz", "allow", "", "/x", FALSE),
     Rule("a/.", "allow", "", "", TRUE), Rule("a/.", "block", "", "", FALSE),
     Rule("x", "block", "", "", TRUE), Rule("x", "allow", "", "", FALSE),
     Rule("a/.", "block", "a", "/x", TRUE),
     Rule("*x", "block", "", "", TRUE),
     FilterRule("x", "block", "", "", "post", "", NoDict, 0, TRUE, "")}

\* requests: "http://A/x" has authority A (domain a) and path /x;
\* "http://b/x" shares the path only; "http://b/a/y.tk" matches the regex
\* patterns "a/." and ".*\.tk$" only
URLs == {"http://A/x", "http://b/x", "http://b/a/y.tk"}
Methods == {"GET"}
HeaderMaps == {NoDict}
ContentTypes == {""}

\* configurations an engine is constructed from
InitConfigs ==
    {Config(TRUE, << {} >>, << {} >>, << >>),
     Config(TRUE, << {} >>, << {"a"} >>, << >>),
     Config(TRUE, << {"a"} >>, << {"a"} >>, << >>)}

\* the arguments _match_rule is called with directly: rules that constrain
\* the method, the content type and the headers in every combination
ProbeRuleHeaders ==
    {NoDict, SomeDict(EmptyDict), SomeDict([via |-> "1"]),
     SomeDict([via |-> "1", dnt |-> "1"])}
ProbeRules ==
    {FilterRule("x", "block", "", "", m, c, h, 0, en, "") :
        m \in {"", "get", "POST"}, c \in {"", "html"},
        h \in ProbeRuleHeaders, en \in BOOLEAN}
ProbeMethods == {"GET", "post"}
ProbeContentTypes == {"", "text/html", "text/css"}
ProbeHeaders ==
    {NoDict, SomeDict(EmptyDict), SomeDict([via |-> "1"]), SomeDict([via |-> "2"]),
     SomeDict([via |-> "1", dnt |-> "1"]), SomeDict([dnt |-> "1"])}
ProbeURL == "http://b/x"

\* the flows the request handler is called with: a flow id, the URL, the
\* method and the header fields as sent, names spelt as the client spelt them
\* and no name twice
FlowIds == {1, 2}
FlowURLs == {"http://A/x", "http://b/x"}
FlowHeaders ==
    {<< >>,
     << <<"Via", "1.1 p">>, <<"user-agent", "UA">> >>,
     << <<"dnt", "0">>, <<"x-real-ip", "10.0.0.1">> >>,
     << <<"Connection", "close">>, <<"accept", "*/*">>,
        <<"proxy-connection", "keep-alive">> >>,
     << <<"accept-language", "fr">>, <<"accept-encoding", "br">>,
        <<"upgrade-insecure-requests", "0">>, <<"x-forwarded-for", "1.2.3.4">>,
        <<"proxy-authorization", "Basic x">> >>,
     << <<"Content-Type", "text/html">>, <<"via", "p">> >>}

\* the header fields of the responses the response handler is called with:
\* none; an HTML page; one with a charset and a frame policy of its own; a
\* style sheet that names one security header twice, spelt two ways; a
\* content type in capitals
ResponseFields ==
    {<< >>,
     << <<"Content-Type", "text/html">> >>,
     << <<"content-type", "text/html; charset=utf-8">>,
        <<"X-Frame-Options", "SAMEORIGIN">> >>,
     << <<"x-content-type-options", "sniff">>, <<"Content-Type", "text/css">>,
        <<"X-Content-Type-Options", "none">> >>,
     << <<"Content-Type", "TEXT/HTML">> >>}

\* rules and URLs for add_rule with a pattern re.compile rejects: "*x" has
\* nothing to repeat, and it is a substring of the first URL
AddRules ==
    {Rule("*x", "block", "", "", TRUE), Rule("*x", "block", "b", "", TRUE),
     Rule("x", "allow", "", "", TRUE), Rule("/.x", "block", "", "", TRUE)}
AddURLs == {"http://b/*x", "http://c/x"}

\* ------------------------------------------------------------------------
\* The string functions above, tabulated once over the strings of the model
\* ------------------------------------------------------------------------

KnownPatterns == {r.pattern : r \in DefaultRuleSet \cup RuleUniverse \cup AddRules}
KnownURLs == URLs \cup FlowURLs \cup AddURLs \cup {ProbeURL}
KnownMethods ==
    Methods \cup ProbeMethods \cup {r.method : r \in RuleUniverse \cup ProbeRules}
KnownContentTypes ==
    ContentTypes \cup ProbeContentTypes \cup {"text/plain"}
        \cup UNION {{h[i][2] : i \in {j \in 1..Len(h) :
                                          h[j][1] \in {"Content-Type", "content-type"}}} :
                    h \in ResponseFields}
        \cup {r.content_type : r \in RuleUniverse \cup ProbeRules}

PatternTable ==
    [p \in KnownPatterns |->
        [meta |-> HasMetaChar(p),
         compiles |-> RegexCompiles(p),
         search |-> [u \in KnownURLs |-> RegexCompiles(p) /\ RegexSearch(p, u)],
         within |-> [u \in KnownURLs |-> StrIn(p, u)]]]

UrlTable ==
    [u \in KnownURLs |-> [domain |-> StrLower(UrlNetloc(u)), path |-> UrlPath(u)]]

UpperTable == [m \in KnownMethods |-> StrUpper(m)]

ContentTypeTable ==
    [c \in KnownContentTypes |-> [d \in KnownContentTypes |-> StrIn(c, d)]]

KeyTable == [m \in KnownMethods |-> [u \in KnownURLs |-> m \o ":" \o u]]

\* The operators below read the tables; their arguments are always drawn
\* from the Known sets.

\* any(char in pattern for char in '.*+?^${}()|[]\\')
PatternHasMeta(pattern) == PatternTable[pattern].meta

\* re.compile(pattern, re.IGNORECASE) returns a regex
PatternCompiles(pattern) == PatternTable[pattern].compiles

\* regex.search(url), regex compiled from pattern
PatternSearch(pattern, url) == PatternTable[pattern].search[url]

\* rule.pattern in url
PatternIn(pattern, url) == PatternTable[pattern].within[url]

\* urlparse(url).netloc.lower()
UrlDomain(url) == UrlTable[url].domain

\* urlparse(url).path
UrlPathOf(url) == UrlTable[url].path

\* method.upper()
MethodUpper(method) == UpperTable[method]

\* rule.content_type in content_type
ContentTypeIn(c, d) == ContentTypeTable[c][d]

\* the fields of a FilterEngine as __init__ sets them, before any rule is loaded.
\* A rule object is its position in `rules`: the indices hold references to the
\* objects of `rules`, and rules are only ever appended.
NewEngine ==
    [rules |-> << >>,
     domain_rules |-> [d \in {} |-> << >>],
     path_rules |-> [d \in {} |-> << >>],
     regex_rules |-> << >>,
     whitelist_domains |-> {},
     blacklist_domains |-> {},
     cache |-> [k \in {} |-> FALSE],
     cache_expiry |-> [k \in {} |-> 0]]

\* index[key].append(i), creating the list when the key is new
IndexAppend(index, key, i) ==
    IF key \in DOMAIN index
    THEN [index EXCEPT ![key] = Append(@, i)]
    ELSE index @@ (key :> << i >>)

\* add_rule that puts every pattern with a metacharacter in the regex index
AddRuleToIndexingUncompiled(e, rule) ==
    LET i == Len(e.rules) + 1
    IN  [e EXCEPT
           !.rules = Append(@, rule),
           !.domain_rules = IF rule.domain # "" THEN IndexAppend(@, rule.domain, i) ELSE @,
           !.path_rules = IF rule.path # "" THEN IndexAppend(@, rule.path, i) ELSE @,
           !.regex_rules = IF PatternHasMeta(rule.pattern)
                           THEN Append(@, << rule.pattern, i >>)
                           ELSE @]

\* FilterEngine.add_rule: the engine e after add_rule(rule)
AddRuleTo(e, rule) ==
    LET i == Len(e.rules) + 1
    IN  [e EXCEPT
           !.rules = Append(@, rule),
           !.domain_rules = IF rule.domain # "" THEN IndexAppend(@, rule.domain, i) ELSE @,
           !.path_rules = IF rule.path # "" THEN IndexAppend(@, rule.path, i) ELSE @,
           !.regex_rules = IF PatternHasMeta(rule.pattern) /\ PatternCompiles(rule.pattern)
                           THEN Append(@, << rule.pattern, i >>)
                           ELSE @]

RECURSIVE AddRulesTo(_, _, _)
\* for rule in rs[k:]: self.add_rule(rule)
AddRulesTo(e, rs, k) ==
    IF k > Len(rs) THEN e ELSE AddRulesTo(AddRuleTo(e, rs[k]), rs, k + 1)

\* FilterEngine.load_default_rules
LoadDefaultRulesTo(e) == AddRulesTo(e, DefaultRules, 1)

RECURSIVE LoadConfigRules(_, _, _)
\* the loop of load_config over config['rules'] from entry k on; an entry that
\* raises ends the loop in the except clause, which loads the default rules
LoadConfigRules(e, rule_datas, k) ==
    IF k > Len(rule_datas) THEN e
    ELSE IF rule_datas[k] = << >> THEN LoadDefaultRulesTo(e)
    ELSE LoadConfigRules(AddRuleTo(e, rule_datas[k][1]), rule_datas, k + 1)

\* FilterEngine.load_config
LoadConfigTo(e, config) ==
    IF ~config.readable THEN LoadDefaultRulesTo(e)
    ELSE IF config.whitelist_domains = << >> THEN LoadDefaultRulesTo(e)
    ELSE LET e1 == [e EXCEPT !.whitelist_domains = config.whitelist_domains[1]]
         IN  IF config.blacklist_domains = << >> THEN LoadDefaultRulesTo(e1)
             ELSE LoadConfigRules(
                     [e1 EXCEPT !.blacklist_domains = config.blacklist_domains[1]],
                     config.rules, 1)

\* FilterEngine.__init__: config_path is <<>> for None and <<config>> for the
\* path of a file with that content
Construct(config_path) ==
    IF config_path # << >>
    THEN LoadConfigTo(NewEngine, config_path[1])
    ELSE LoadDefaultRulesTo(NewEngine)

\* ------------------------------------------------------------------------
\* FilterEngine.should_block
\* ------------------------------------------------------------------------

\* every (key, value) of the rule's headers is in the request's headers
HeadersAgree(rule_headers, headers) ==
    \A key \in DOMAIN rule_headers :
        key \in DOMAIN headers /\ headers[key] = rule_headers[key]

\* _match_rule without its test of rule.enabled
MatchRuleIgnoringEnabled(rule, url, method, headers, content_type) ==
    IF rule.method # "" /\ MethodUpper(rule.method) # MethodUpper(method) THEN FALSE
    ELSE IF /\ rule.content_type # ""
            /\ content_type # ""
            /\ ~ContentTypeIn(rule.content_type, content_type) THEN FALSE
    ELSE IF /\ Truthy(rule.headers)
            /\ Truthy(headers)
            /\ ~HeadersAgree(rule.headers[1], headers[1]) THEN FALSE
    ELSE TRUE

\* FilterEngine._match_rule
MatchRule(rule, url, method, headers, content_type) ==
    IF ~rule.enabled THEN FALSE
    ELSE IF rule.method # "" /\ MethodUpper(rule.method) # MethodUpper(method) THEN FALSE
    ELSE IF /\ rule.content_type # ""
            /\ content_type # ""
            /\ ~ContentTypeIn(rule.content_type, content_type) THEN FALSE
    ELSE IF /\ Truthy(rule.headers)
            /\ Truthy(headers)
            /\ ~HeadersAgree(rule.headers[1], headers[1]) THEN FALSE
    ELSE TRUE

\* cache_key = f"{method}:{url}"
CacheKey(method, url) ==
    IF method \in KnownMethods /\ url \in KnownURLs
    THEN KeyTable[method][url]
    ELSE method \o ":" \o url

\* the least position of a set of positions, 0 when it is empty: where a `for`
\* loop that returns on its first hit stops
FirstOfSet(positions) ==
    IF positions = {} THEN 0
    ELSE CHOOSE k \in positions : \A j \in positions : k <= j

\* the check of the cache with its comparison turned around
CacheFreshReversed(e, key, t) ==
    /\ key \in DOMAIN e.cache
    /\ t > (IF key \in DOMAIN e.cache_expiry THEN e.cache_expiry[key] ELSE 0)

\* the check of the cache with <= for <
CacheFreshInclusive(e, key, t) ==
    /\ key \in DOMAIN e.cache
    /\ t <= (IF key \in DOMAIN e.cache_expiry THEN e.cache_expiry[key] ELSE 0)

\* the check of the cache at the head of should_block: the key is cached and
\* time.time() < self.cache_expiry.get(cache_key, 0)
CacheFresh(e, key, t) ==
    /\ key \in DOMAIN e.cache
    /\ t < (IF key \in DOMAIN e.cache_expiry THEN e.cache_expiry[key] ELSE 0)

\* the loop without its return: the last rule that passes decides
LastMatch(e, candidates, tested, url, method, headers, content_type) ==
    LET hits == {j \in tested :
                    MatchRule(e.rules[candidates[j]], url, method, headers, content_type)}
    IN  IF hits = {} THEN 0
        ELSE candidates[CHOOSE j \in hits : \A i \in hits : i <= j]

\* the loop made to prefer the rule of the highest priority among those that
\* pass, the first of them when several share it
FirstMatchByPriority(e, candidates, tested, url, method, headers, content_type) ==
    LET hits == {j \in tested :
                    MatchRule(e.rules[candidates[j]], url, method, headers, content_type)}
        best == {j \in hits : \A i \in hits :
                    e.rules[candidates[i]].priority <= e.rules[candidates[j]].priority}
    IN  IF hits = {} THEN 0 ELSE candidates[FirstOfSet(best)]

\* the loop `for rule in candidates: if <test> and self._match_rule(...): return`
\* over a list of rule objects (positions in rules); `tested` holds the
\* positions of `candidates` that pass the loop's own test.  The result is the
\* first rule that passes it and _match_rule, 0 when the loop falls through
FirstMatch(e, candidates, tested, url, method, headers, content_type) ==
    LET k == FirstOfSet({j \in tested :
                 MatchRule(e.rules[candidates[j]], url, method, headers, content_type)})
    IN  IF k = 0 THEN 0 ELSE candidates[k]

\* the two list checks in the other order
ListExitBlacklistFirst(e, domain) ==
    IF domain \in e.blacklist_domains THEN "blacklist"
    ELSE IF domain \in e.whitelist_domains THEN "whitelist"
    ELSE ""

\* the whitelist check alone
ListExitWhitelistOnly(e, domain) ==
    IF domain \in e.whitelist_domains THEN "whitelist" ELSE ""

\* the whitelist and blacklist checks of should_block, in its order: the list
\* that decides for the domain, "" when neither does
ListExit(e, domain) ==
    IF domain \in e.whitelist_domains THEN "whitelist"
    ELSE IF domain \in e.blacklist_domains THEN "blacklist"
    ELSE ""

\* what should_block returns and where it returns it: blocked, the matched
\* rule (its position in rules, 0 for None), the exit taken, and whether
\* _update_cache ran before the return
Decide(e, t, url, method, headers, content_type) ==
    LET domain == UrlDomain(url)
        path   == UrlPathOf(url)
        key    == CacheKey(method, url)
        allRules == [j \in 1..Len(e.rules) |-> j]
        byDomain == IF domain \in DOMAIN e.domain_rules
                    THEN FirstMatch(e, e.domain_rules[domain],
                                    DOMAIN e.domain_rules[domain],
                                    url, method, headers, content_type)
                    ELSE 0
        byPath   == IF path \in DOMAIN e.path_rules
                    THEN FirstMatch(e, e.path_rules[path], DOMAIN e.path_rules[path],
                                    url, method, headers, content_type)
                    ELSE 0
        byRegex  == FirstMatch(e, [j \in 1..Len(e.regex_rules) |-> e.regex_rules[j][2]],
                               {j \in 1..Len(e.regex_rules) :
                                   PatternSearch(e.regex_rules[j][1], url)},
                               url, method, headers, content_type)
        byOther  == FirstMatch(e, allRules,
                               {j \in 1..Len(e.rules) :
                                   /\ ~(\/ e.rules[j].domain # ""
                                        \/ e.rules[j].path # ""
                                        \/ PatternHasMeta(e.rules[j].pattern))
                                   /\ PatternIn(e.rules[j].pattern, url)},
                               url, method, headers, content_type)
        Matched(rule, exit) ==
            [blocked |-> e.rules[rule].action = "block", rule |-> rule,
             exit |-> exit, stored |-> TRUE]
    IN  IF CacheFresh(e, key, t)
        THEN [blocked |-> e.cache[key], rule |-> 0, exit |-> "cache", stored |-> FALSE]
        ELSE IF ListExit(e, domain) = "whitelist"
        THEN [blocked |-> FALSE, rule |-> 0, exit |-> "whitelist", stored |-> TRUE]
        ELSE IF ListExit(e, domain) = "blacklist"
        THEN [blocked |-> TRUE, rule |-> 0, exit |-> "blacklist", stored |-> TRUE]
        ELSE IF byDomain # 0 THEN Matched(byDomain, "domain")
        ELSE IF byPath # 0 THEN Matched(byPath, "path")
        ELSE IF byRegex # 0 THEN Matched(byRegex, "regex")
        ELSE IF byOther # 0 THEN Matched(byOther, "literal")
        ELSE [blocked |-> FALSE, rule |-> 0, exit |-> "default", stored |-> TRUE]

\* _update_cache that stores the verdict and leaves the expiry as it was
UpdateCacheKeepingExpiry(e, key, result, t) ==
    [e EXCEPT !.cache = (key :> result) @@ @,
              !.cache_expiry = IF key \in DOMAIN @ THEN @ ELSE (key :> t) @@ @]

\* _update_cache that lets an entry live for two TTLs
UpdateCacheDoubleTtl(e, key, result, t) ==
    [e EXCEPT !.cache = (key :> result) @@ @,
              !.cache_expiry = (key :> (t + 2 * cache_ttl)) @@ @]

\* _update_cache that drops the entries that have expired as it stores
UpdateCacheEvicting(e, key, result, t) ==
    LET live == {k \in DOMAIN e.cache_expiry : e.cache_expiry[k] > t} \ {key}
    IN  [e EXCEPT !.cache = (key :> result) @@ [k \in live \cap DOMAIN @ |-> @[k]],
                  !.cache_expiry = (key :> (t + cache_ttl)) @@ [k \in live |-> @[k]]]

\* _update_cache that stores the verdict and no expiry
UpdateCacheVerdictOnly(e, key, result, t) ==
    [e EXCEPT !.cache = (key :> result) @@ @]

\* FilterEngine._update_cache at time t
UpdateCache(e, key, result, t) ==
    [e EXCEPT !.cache = (key :> result) @@ @,
              !.cache_expiry = (key :> (t + cache_ttl)) @@ @]

\* ------------------------------------------------------------------------
\* The filter engine as a state machine
\* ------------------------------------------------------------------------

VARIABLES
    rules,              \* FilterEngine.rules
    domain_rules,       \* FilterEngine.domain_rules
    path_rules,         \* FilterEngine.path_rules
    regex_rules,        \* FilterEngine.regex_rules
    whitelist_domains,  \* FilterEngine.whitelist_domains
    blacklist_domains,  \* FilterEngine.blacklist_domains
    cache,              \* FilterEngine.cache
    cache_expiry,       \* FilterEngine.cache_expiry
    now,                \* what time.time() reads, in seconds
    computed,           \* per cache key: when should_block last computed a
                        \* verdict for it (any exit but the cache's) and which
    last,               \* the last operation: its arguments and what it returned
    probe,              \* a direct call of _match_rule: its arguments and result
    total_requests,     \* OblivionFilterAddon.total_requests
    blocked_requests,   \* OblivionFilterAddon.blocked_requests
    connections,        \* NetworkMonitor.connections
    flow,               \* the flow the request handler was last called with
    body,               \* a response body and the process_html calls made on it
    response_times,     \* NetworkMonitor.response_times
    start_time,         \* NetworkMonitor.start_time
    samples,            \* every latency sample track_response has recorded, in order
    threads,            \* per parallel request callback: its position and locals
    twin,               \* a second engine run side by side with the first,
                        \* and what its last should_block returned
    host                \* the native messaging host: its controller, stdin and
                        \* stdout, and where its loop stands

engineVars == << rules, domain_rules, path_rules, regex_rules,
                 whitelist_domains, blacklist_domains, cache, cache_expiry >>

addonVars == << total_requests, blocked_requests, connections, flow >>

monitorVars == << response_times, start_time, samples >>

\* what the engine's and the request handler's operations leave alone
sideVars == << body, response_times, start_time, samples, threads, twin, host >>

vars == << rules, domain_rules, path_rules, regex_rules, whitelist_domains,
           blacklist_domains, cache, cache_expiry, now, computed, last, probe,
           total_requests, blocked_requests, connections, flow,
           body, response_times, start_time, samples, threads, twin, host >>

\* the FilterEngine object of the current state
Engine ==
    [rules |-> rules, domain_rules |-> domain_rules, path_rules |-> path_rules,
     regex_rules |-> regex_rules, whitelist_domains |-> whitelist_domains,
     blacklist_domains |-> blacklist_domains, cache |-> cache,
     cache_expiry |-> cache_expiry]

\* the FilterEngine object becomes e
EngineBecomes(e) ==
    /\ rules' = e.rules
    /\ domain_rules' = e.domain_rules
    /\ path_rules' = e.path_rules
    /\ regex_rules' = e.regex_rules
    /\ whitelist_domains' = e.whitelist_domains
    /\ blacklist_domains' = e.blacklist_domains
    /\ cache' = e.cache
    /\ cache_expiry' = e.cache_expiry

\* the FilterEngine object is e, fresh from its constructor
EngineIs(e) ==
    /\ rules = e.rules
    /\ domain_rules = e.domain_rules
    /\ path_rules = e.path_rules
    /\ regex_rules = e.regex_rules
    /\ whitelist_domains = e.whitelist_domains
    /\ blacklist_domains = e.blacklist_domains
    /\ cache = e.cache
    /\ cache_expiry = e.cache_expiry

\* FilterEngine(config_path) has been constructed
Constructed(config_path) == LET e == Construct(config_path) IN EngineIs(e)

\* `last` after an operation that is no should_block call
NoCall(op) ==
    [op |-> op, url |-> "", method |-> "", headers |-> NoDict, content_type |-> "",
     blocked |-> FALSE, rule |-> 0, exit |-> "", prev |-> << >>]

\* the rules of rs that load_default_rules did not make
UserRuleCount(rs) ==
    Cardinality({k \in 1..Len(rs) : rs[k] \notin DefaultRuleSet})

\* the rule store stays within the bounds: at most MaxRules rules of its own
\* and at most one load of the default rules
WithinBounds(e) ==
    /\ UserRuleCount(e.rules) <= MaxRules
    /\ Len(e.rules) <= MaxRules + Len(DefaultRules)

\* ---- actions ----

\* add_rule(rule)
AddRule(rule) ==
    LET e == AddRuleTo(Engine, rule)
    IN  /\ WithinBounds(e)
        /\ EngineBecomes(e)
        /\ last' = NoCall("add_rule")
        /\ UNCHANGED << now, computed, probe, addonVars, sideVars >>

\* load_config's try block raises and the except clause runs
ConfigFails(config) ==
    \/ ~config.readable
    \/ config.whitelist_domains = << >>
    \/ config.blacklist_domains = << >>
    \/ \E k \in 1..Len(config.rules) : config.rules[k] = << >>

\* `last` after load_config(config_path): whether the except clause ran
LoadedConfig(config) ==
    [NoCall("load_config") EXCEPT !.exit = IF ConfigFails(config) THEN "except" ELSE "try"]

\* load_config(config_path), on an engine in use
LoadConfig(config) ==
    LET e == LoadConfigTo(Engine, config)
    IN  /\ WithinBounds(e)
        /\ EngineBecomes(e)
        /\ last' = LoadedConfig(config)
        /\ UNCHANGED << now, computed, probe, addonVars, sideVars >>

\* the clock moves on by d seconds
Tick(d) ==
    /\ now + d <= MaxTime
    /\ now' = now + d
    /\ last' = NoCall("tick")
    /\ UNCHANGED << engineVars, computed, probe, addonVars, sideVars >>

\* should_block returns d: the cache is updated when _update_cache ran, and
\* the call is recorded
ShouldBlockReturns(d, key, url, method, headers, content_type) ==
    /\ cache' = IF d.stored THEN UpdateCache(Engine, key, d.blocked, now).cache
                ELSE cache
    /\ cache_expiry' = IF d.stored
                       THEN UpdateCache(Engine, key, d.blocked, now).cache_expiry
                       ELSE cache_expiry
    /\ UNCHANGED << rules, domain_rules, path_rules, regex_rules,
                    whitelist_domains, blacklist_domains >>
    /\ computed' = IF d.exit = "cache" THEN computed
                   ELSE (key :> [at |-> now, blocked |-> d.blocked]) @@ computed
    /\ last' = [op |-> "should_block", url |-> url, method |-> method,
                headers |-> headers, content_type |-> content_type,
                blocked |-> d.blocked, rule |-> d.rule, exit |-> d.exit,
                prev |-> IF key \in DOMAIN computed THEN << computed[key] >> ELSE << >>]

\* what a should_block(url, method, headers, content_type) call does to the
\* engine, and the record of it
ShouldBlockCall(url, method, headers, content_type) ==
    ShouldBlockReturns(Decide(Engine, now, url, method, headers, content_type),
                       CacheKey(method, url), url, method, headers, content_type)

\* should_block(url, method, headers, content_type), called on the engine
ShouldBlock(url, method, headers, content_type) ==
    /\ ShouldBlockCall(url, method, headers, content_type)
    /\ UNCHANGED << now, probe, addonVars, sideVars >>

\* nothing has called _match_rule directly
NoProbe == [called |-> FALSE]

\* the adapter and the monitor as their constructors leave them, no flow seen
AddonIdle ==
    /\ total_requests = 0
    /\ blocked_requests = 0
    /\ connections = [i \in {} |-> 0]
    /\ flow = [op |-> "none"]

\* no body is being processed, the monitor is as NetworkMonitor.__init__ leaves
\* it at time 0, and no callback runs in parallel
SideIdle ==
    /\ body = [op |-> "none"]
    /\ response_times = << >>
    /\ start_time = 0
    /\ samples = << >>
    /\ threads = << >>
    /\ twin = << >>
    /\ host = << >>

\* ---- the engine over a rich rule set, the clock standing still ----

Init ==
    /\ \E config \in InitConfigs : Constructed(<< config >>)
    /\ now = 0
    /\ computed = [k \in {} |-> 0]
    /\ last = NoCall("init")
    /\ probe = NoProbe
    /\ AddonIdle
    /\ SideIdle

Next ==
    \/ \E rule \in RuleUniverse : AddRule(rule)
    \/ \E url \in URLs, method \in Methods, headers \in HeaderMaps,
          content_type \in ContentTypes :
          ShouldBlock(url, method, headers, content_type)

Spec == Init /\ [][Next]_vars

\* ---- the engine over time: reloads, a moving clock, few rules ----

\* configurations for the cache: every choice of whitelisting and blacklisting
\* the domain a, and a file that cannot be read
CacheConfigs ==
    {Config(TRUE, << wl >>, << bl >>, << >>) : wl \in {{}, {"a"}}, bl \in {{}, {"a"}}}
    \cup {Config(FALSE, << >>, << >>, << >>)}

\* the one rule added over time: it allows what the default rules block
CacheRules == {Rule("a/.", "allow", "", "", TRUE)}

\* "http://b/a/y.tk" is blocked by the default rule ".*\.tk$"
CacheURLs == {"http://A/x", "http://b/a/y.tk"}

InitCache ==
    /\ \E config_path \in {<< >>} \cup {<< c >> : c \in CacheConfigs} :
          Constructed(config_path)
    /\ now = 0
    /\ computed = [k \in {} |-> 0]
    /\ last = NoCall("init")
    /\ probe = NoProbe
    /\ AddonIdle
    /\ SideIdle

NextCache ==
    \/ \E config \in CacheConfigs : LoadConfig(config)
    \/ \E rule \in CacheRules : AddRule(rule)
    \/ \E d \in Ticks : Tick(d)
    \/ \E url \in CacheURLs : ShouldBlock(url, "GET", NoDict, "")

SpecCache == InitCache /\ [][NextCache]_vars

\* ---- load_config: the constructor's call and reloads ----

\* config files: unreadable or unparsable; a whitelist_domains value set()
\* rejects; a blacklist_domains value set() rejects; a rules entry FilterRule
\* rejects, after one it accepts; and two files that load
LoadConfigs ==
    {Config(FALSE, << >>, << >>, << >>),
     Config(TRUE, << >>, << >>, << >>),
     Config(TRUE, << {"a"} >>, << >>, << >>),
     Config(TRUE, << {"a"} >>, << {"b"} >>,
            << << Rule("x", "block", "", "", TRUE) >>, << >> >>),
     Config(TRUE, << {} >>, << {} >>, << << Rule("x", "block", "", "", TRUE) >> >>),
     Config(TRUE, << {} >>, << {"a"} >>, << >>)}

\* FilterEngine(config_path) for a config file: __init__ calls load_config
InitLoad ==
    /\ \E config \in LoadConfigs :
          /\ Constructed(<< config >>)
          /\ last = LoadedConfig(config)
    /\ now = 0
    /\ computed = [k \in {} |-> 0]
    /\ probe = NoProbe
    /\ AddonIdle
    /\ SideIdle

NextLoad ==
    \/ \E config \in LoadConfigs : LoadConfig(config)
    \/ \E url \in URLs : ShouldBlock(url, "GET", NoDict, "")

SpecLoad == InitLoad /\ [][NextLoad]_vars

\* ---- add_rule with patterns that do not compile ----

InitAdd ==
    /\ Constructed(<< Config(TRUE, << {} >>, << {} >>, << >>) >>)
    /\ now = 0
    /\ computed = [k \in {} |-> 0]
    /\ last = NoCall("init")
    /\ probe = NoProbe
    /\ AddonIdle
    /\ SideIdle

NextAdd ==
    \/ \E rule \in AddRules : AddRule(rule)
    \/ \E url \in AddURLs : ShouldBlock(url, "GET", NoDict, "")

SpecAdd == InitAdd /\ [][NextAdd]_vars

\* ---- _match_rule called directly on every combination of arguments ----

\* _match_rule(rule, url, method, headers, content_type) is called and returns
MatchRuleCall(rule, method, headers, content_type) ==
    /\ ~probe.called
    /\ probe' = [called |-> TRUE, rule |-> rule, method |-> method,
                 headers |-> headers, content_type |-> content_type,
                 result |-> MatchRule(rule, ProbeURL, method, headers, content_type)]
    /\ UNCHANGED << engineVars, now, computed, last, addonVars, sideVars >>

InitMatch ==
    /\ Constructed(<< Config(TRUE, << {} >>, << {} >>, << >>) >>)
    /\ now = 0
    /\ computed = [k \in {} |-> 0]
    /\ last = NoCall("init")
    /\ probe = NoProbe
    /\ AddonIdle
    /\ SideIdle

NextMatch ==
    \E rule \in ProbeRules, method \in ProbeMethods, headers \in ProbeHeaders,
       content_type \in ProbeContentTypes :
        MatchRuleCall(rule, method, headers, content_type)

SpecMatch == InitMatch /\ [][NextMatch]_vars

\* ---- the mitmproxy adapter: OblivionFilterAddon.request ----

\* flow.request.headers is a sequence of <<name, value>> fields.  Names are
\* compared without regard to case by `in`, `del` and item assignment;
\* dict(flow.request.headers) keeps each name as it is spelt.
StealthRemoved ==
    {"proxy-connection", "proxy-authorization", "x-forwarded-for", "x-real-ip", "via"}
StealthDefaults ==
    << <<"user-agent", "Mozilla/5.0 (Windows NT 10.0; Win64; x64) AppleWebKit/537.36 (KHTML, like Gecko) Chrome/120.0.0.0 Safari/537.36">>,
       <<"accept", "text/html,application/xhtml+xml,application/xml;q=0.9,image/webp,*/*;q=0.8">>,
       <<"accept-language", "en-US,en;q=0.5">>,
       <<"accept-encoding", "gzip, deflate">> >>
StealthForced ==
    << <<"dnt", "1">>, <<"connection", "keep-alive">>,
       <<"upgrade-insecure-requests", "1">> >>

\* security_headers of _add_security_headers, in its order
SecurityHeaders ==
    << <<"X-Content-Type-Options", "nosniff">>,
       <<"X-Frame-Options", "DENY">>,
       <<"X-XSS-Protection", "1; mode=block">>,
       <<"Referrer-Policy", "strict-origin-when-cross-origin">>,
       <<"Permissions-Policy", "geolocation=(), microphone=(), camera=()">> >>

KnownHeaderNames ==
    StealthRemoved \cup {"content-type"}
        \cup {SecurityHeaders[i][1] : i \in 1..Len(SecurityHeaders)}
        \cup UNION {{h[i][1] : i \in 1..Len(h)} : h \in ResponseFields}
        \cup {StealthDefaults[i][1] : i \in 1..Len(StealthDefaults)}
        \cup {StealthForced[i][1] : i \in 1..Len(StealthForced)}
        \cup UNION {{h[i][1] : i \in 1..Len(h)} : h \in FlowHeaders}
LowerTable == [n \in KnownHeaderNames |-> StrLower(n)]
NameLower(name) == LowerTable[name]

\* the positions of the fields named `name`
HeaderPositions(fields, name) ==
    {i \in 1..Len(fields) : NameLower(fields[i][1]) = NameLower(name)}

\* name in flow.request.headers
HeaderIn(fields, name) == HeaderPositions(fields, name) # {}

\* flow.request.headers[name], for a name that is in the headers once
HeaderGet(fields, name) == fields[FirstOfSet(HeaderPositions(fields, name))][2]

\* del flow.request.headers[name]
RECURSIVE HeaderDel(_, _)
HeaderDel(fields, name) ==
    IF fields = << >> THEN << >>
    ELSE IF NameLower(fields[1][1]) = NameLower(name) THEN HeaderDel(Tail(fields), name)
    ELSE << fields[1] >> \o HeaderDel(Tail(fields), name)

\* flow.request.headers[name] = value: the first field of that name takes the
\* value and keeps its spelling, any further one goes; absent, it is appended
HeaderSet(fields, name, value) ==
    IF HeaderIn(fields, name)
    THEN LET i == FirstOfSet(HeaderPositions(fields, name))
         IN  SubSeq(fields, 1, i - 1) \o << << fields[i][1], value >> >>
                \o HeaderDel(SubSeq(fields, i + 1, Len(fields)), name)
    ELSE Append(fields, << name, value >>)

\* dict(flow.request.headers)
HeaderDict(fields) ==
    [n \in {fields[i][1] : i \in 1..Len(fields)} |->
        fields[CHOOSE i \in 1..Len(fields) : fields[i][1] = n][2]]

\* headers.get(key, default) on the plain dict
DictGet(d, key, default) == IF key \in DOMAIN d THEN d[key] ELSE default

\* the loop over headers_to_remove
RemoveProxyHeaders(fields) ==
    SelectSeq(fields, LAMBDA f : NameLower(f[1]) \notin StealthRemoved)

\* the four `if name not in flow.request.headers` assignments, in order
RECURSIVE AddDefaults(_, _)
AddDefaults(fields, k) ==
    IF k > Len(StealthDefaults) THEN fields
    ELSE AddDefaults(IF HeaderIn(fields, StealthDefaults[k][1]) THEN fields
                     ELSE HeaderSet(fields, StealthDefaults[k][1], StealthDefaults[k][2]),
                     k + 1)

\* the three unconditional assignments, in order
RECURSIVE SetForced(_, _)
SetForced(fields, k) ==
    IF k > Len(StealthForced) THEN fields
    ELSE SetForced(HeaderSet(fields, StealthForced[k][1], StealthForced[k][2]), k + 1)

\* _add_stealth_headers that leaves the proxy headers in place
AddStealthHeadersKeepingProxy(fields) ==
    SetForced(AddDefaults(fields, 1), 1)

\* OblivionFilterAddon._add_stealth_headers, on the request's header fields
AddStealthHeaders(fields) ==
    SetForced(AddDefaults(RemoveProxyHeaders(fields), 1), 1)

\* http.Response.make(403, b"Request blocked by OblivionFilter", {...})
BlockedResponse ==
    [status_code |-> 403, content |-> "Request blocked by OblivionFilter",
     headers |-> << <<"Content-Type", "text/plain">> >>]

\* a track_request that updates the record it finds, so that what a response
\* had added to it stays
TrackRequestUpdating(conns, request_id, url, method, t) ==
    (request_id :>
        ([url |-> url, method |-> method, start_time |-> t,
          bytes_sent |-> 0, bytes_received |-> 0, status |-> "pending"]
         @@ (IF request_id \in DOMAIN conns THEN conns[request_id]
             ELSE [status |-> "pending"])))
        @@ conns

\* NetworkMonitor.track_request
TrackRequest(conns, request_id, url, method, t) ==
    (request_id :> [url |-> url, method |-> method, start_time |-> t,
                    bytes_sent |-> 0, bytes_received |-> 0, status |-> "pending"])
        @@ conns

MaxRequests == 2

\* the request handler once should_block has returned d
RequestDecided(d, id, url, method, fields, headers, content_type) ==
    /\ total_requests < MaxRequests
    /\ total_requests' = total_requests + 1
    /\ connections' = TrackRequest(connections, id, url, method, now)
    /\ ShouldBlockReturns(d, CacheKey(method, url), url, method, SomeDict(headers),
                          content_type)
    /\ blocked_requests' = IF d.blocked THEN blocked_requests + 1 ELSE blocked_requests
    /\ flow' = [op |-> "request", id |-> id, url |-> url, method |-> method,
                sent |-> fields, should_block |-> d.blocked,
                blocked_before |-> blocked_requests,
                headers |-> IF d.blocked THEN fields ELSE AddStealthHeaders(fields),
                response |-> IF d.blocked THEN << BlockedResponse >> ELSE << >>]
    /\ UNCHANGED << now, probe, sideVars >>

\* the handler with headers = dict(flow.request.headers) taken
RequestWith(id, url, method, fields, headers) ==
    RequestDecided(Decide(Engine, now, url, method, SomeDict(headers),
                          DictGet(headers, "content-type", "")),
                   id, url, method, fields, headers,
                   DictGet(headers, "content-type", ""))

\* OblivionFilterAddon.request(flow): the flow arrives with no response
Request(id, url, method, fields) ==
    RequestWith(id, url, method, fields, HeaderDict(fields))

AddonRules == {Rule("zz", "block", "b", "", TRUE)}

InitAddon ==
    /\ \E config \in InitConfigs : Constructed(<< config >>)
    /\ now = 0
    /\ computed = [k \in {} |-> 0]
    /\ last = NoCall("init")
    /\ probe = NoProbe
    /\ AddonIdle
    /\ SideIdle

NextAddon ==
    \/ \E id \in FlowIds, url \in FlowURLs, fields \in FlowHeaders :
          Request(id, url, "GET", fields)
    \/ \E rule \in AddonRules : AddRule(rule)

SpecAddon == InitAddon /\ [][NextAddon]_vars

\* ------------------------------------------------------------------------
\* ContentProcessor.process_html
\*
\* A bytes object is a sequence of byte values 0..255 and a str a sequence of
\* code points, so that decoding and encoding are conversions between the two.
\* Long sequences are built by halving, never by a recursion on the length.
\* ------------------------------------------------------------------------

\* the ASCII characters 32..95 and 97..126, in order
AsciiToUnderscore ==
    " !\"#$%&'()*+,-./0123456789:;<=>?@ABCDEFGHIJKLMNOPQRSTUVWXYZ[\\]^_"
AsciiFromA == "abcdefghijklmnopqrstuvwxyz{|}~"

\* ord(c) for the characters of the literals in the source
Ord(c) ==
    IF c = "\n" THEN 10
    ELSE IF IndexOf(c, AsciiToUnderscore) > 0 THEN 31 + IndexOf(c, AsciiToUnderscore)
    ELSE 96 + IndexOf(c, AsciiFromA)

\* the code points of a str literal of the source
Text(s) == [i \in 1..Len(s) |-> Ord(Ch(s, i))]

RECURSIVE Join(_, _, _)
\* sep.join(parts[k:])
Join(parts, sep, k) ==
    IF k > Len(parts) THEN ""
    ELSE IF k = Len(parts) THEN parts[k]
    ELSE parts[k] \o sep \o Join(parts, sep, k + 1)

cosmetic_rules ==
    << ".advertisement", ".ad-banner", ".ad-container", "[id*='ad']", "[class*='ad']",
       "#ads", ".ads", ".adsystem", ".googlesyndication", ".doubleclick",
       ".googletagmanager", ".facebook-tracking", ".twitter-tracking", ".analytics" >>

scriptlet_rules ==
    << "window.google_tag_manager = undefined;", "window.ga = function(){};",
       "window.gtag = function(){};", "window._gaq = [];",
       "window.GoogleAnalyticsObject = undefined;", "window.fbq = function(){};",
       "window._fbq = function(){};", "window.twq = function(){};",
       "console.log('[OblivionFilter] Blocked tracking script');" >>

\* ContentProcessor._generate_cosmetic_css
GenerateCosmeticCss ==
    Join([k \in 1..Len(cosmetic_rules) |->
             cosmetic_rules[k] \o " { display: none !important; }"], "\n", 1)

\* ContentProcessor._generate_scriptlet_js
GenerateScriptletJs == Join(scriptlet_rules, "\n", 1)

\* style_tag and script_tag of process_html
StyleTag == Text("<style type=\"text/css\">" \o GenerateCosmeticCss \o "</style>")
ScriptTag == Text("<script type=\"text/javascript\">" \o GenerateScriptletJs \o "</script>")

HeadClose == Text("</head>")
BodyOpen == Text("<body")
BodyClose == Text("</body>")

\* the positions at which `sub` occurs in `text`
Occurrences(text, sub) ==
    {i \in 1..(Len(text) - Len(sub) + 1) :
        text[i] = sub[1] /\ SubSeq(text, i, i + Len(sub) - 1) = sub}

\* sub in text
Contains(text, sub) == Occurrences(text, sub) # {}

\* text.replace(old, new) at the last occurrence instead of the first
ReplaceLast(text, old, new) ==
    LET occ == Occurrences(text, old)
        at  == IF occ = {} THEN 0 ELSE CHOOSE k \in occ : \A j \in occ : j <= k
    IN  IF at = 0 THEN text
        ELSE SubSeq(text, 1, at - 1) \o new \o SubSeq(text, at + Len(old), Len(text))

\* text.replace(old, new, 1)
ReplaceFirst(text, old, new) ==
    LET at == FirstOfSet(Occurrences(text, old))
    IN  IF at = 0 THEN text
        ELSE SubSeq(text, 1, at - 1) \o new \o SubSeq(text, at + Len(old), Len(text))

\* UTF-8: continuation bytes, and the number of bytes a lead byte announces
\* (0 for a byte that cannot start a character)
IsContinuation(b) == 128 <= b /\ b <= 191
Utf8Width(b) ==
    IF b < 128 THEN 1
    ELSE IF 194 <= b /\ b <= 223 THEN 2
    ELSE IF 224 <= b /\ b <= 239 THEN 3
    ELSE IF 240 <= b /\ b <= 244 THEN 4
    ELSE 0

\* the byte after the lead byte b may be c: no overlong form, no surrogate,
\* nothing above U+10FFFF
SecondByteFits(b, c) ==
    /\ IsContinuation(c)
    /\ b = 224 => c >= 160
    /\ b = 237 => c <= 159
    /\ b = 240 => c >= 144
    /\ b = 244 => c <= 143

\* a character starts at position i of content and is well formed
CharacterAt(content, i) ==
    LET w == Utf8Width(content[i])
    IN  /\ w > 0
        /\ i + w - 1 <= Len(content)
        /\ w > 1 => SecondByteFits(content[i], content[i + 1])
        /\ \A j \in (i + 2)..(i + w - 1) : IsContinuation(content[j])
        /\ (i + w <= Len(content)) => ~IsContinuation(content[i + w])

\* content.decode('utf-8') does not raise UnicodeDecodeError
Decodable(content) ==
    /\ content # << >> => ~IsContinuation(content[1])
    /\ \A i \in 1..Len(content) :
          ~IsContinuation(content[i]) => CharacterAt(content, i)

\* the code point of the character that starts at position i
CodePointAt(content, i) ==
    LET b == content[i]
        w == Utf8Width(b)
    IN  IF w = 1 THEN b
        ELSE IF w = 2 THEN (b - 192) * 64 + (content[i + 1] - 128)
        ELSE IF w = 3 THEN (b - 224) * 4096 + (content[i + 1] - 128) * 64
                              + (content[i + 2] - 128)
        ELSE (b - 240) * 262144 + (content[i + 1] - 128) * 4096
                 + (content[i + 2] - 128) * 64 + (content[i + 3] - 128)

RECURSIVE DecodeRange(_, _, _)
\* the characters that start in content[lo..hi], for decodable content
DecodeRange(content, lo, hi) ==
    IF lo > hi THEN << >>
    ELSE IF lo = hi
    THEN IF IsContinuation(content[lo]) THEN << >> ELSE << CodePointAt(content, lo) >>
    ELSE DecodeRange(content, lo, (lo + hi) \div 2)
            \o DecodeRange(content, (lo + hi) \div 2 + 1, hi)

\* content.decode('utf-8'), for decodable content
Utf8Decode(content) == DecodeRange(content, 1, Len(content))

\* chr(cp).encode('utf-8')
EncodeCodePoint(cp) ==
    IF cp < 128 THEN << cp >>
    ELSE IF cp < 2048 THEN << 192 + (cp \div 64), 128 + (cp % 64) >>
    ELSE IF cp < 65536
    THEN << 224 + (cp \div 4096), 128 + ((cp \div 64) % 64), 128 + (cp % 64) >>
    ELSE << 240 + (cp \div 262144), 128 + ((cp \div 4096) % 64),
            128 + ((cp \div 64) % 64), 128 + (cp % 64) >>

RECURSIVE EncodeRange(_, _, _)
EncodeRange(html, lo, hi) ==
    IF lo > hi THEN << >>
    ELSE IF lo = hi THEN EncodeCodePoint(html[lo])
    ELSE EncodeRange(html, lo, (lo + hi) \div 2)
            \o EncodeRange(html, (lo + hi) \div 2 + 1, hi)

\* html.encode('utf-8')
Utf8Encode(html) == EncodeRange(html, 1, Len(html))

\* the CSS step made idempotent: nothing is injected when the block is there
InjectStyleOnce(html) ==
    IF Contains(html, StyleTag) THEN html
    ELSE IF Contains(html, HeadClose) THEN ReplaceFirst(html, HeadClose, StyleTag \o HeadClose)
    ELSE html

\* the cosmetic CSS step of process_html
InjectStyle(html) ==
    IF GenerateCosmeticCss = "" THEN html
    ELSE IF Contains(html, HeadClose) THEN ReplaceFirst(html, HeadClose, StyleTag \o HeadClose)
    ELSE IF Contains(html, BodyOpen) THEN ReplaceFirst(html, BodyOpen, StyleTag \o BodyOpen)
    ELSE html

\* the anti-tracking script step of process_html
InjectScript(html) ==
    IF GenerateScriptletJs = "" THEN html
    ELSE IF Contains(html, BodyClose)
    THEN ReplaceFirst(html, BodyClose, ScriptTag \o BodyClose)
    ELSE html \o ScriptTag

\* process_html with content.decode('utf-8', errors='ignore'), on ASCII and
\* stray bytes
ProcessHtmlIgnoringErrors(content) ==
    Utf8Encode(InjectScript(InjectStyle(SelectSeq(content, LAMBDA b : b < 128))))

\* ContentProcessor.process_html(content, url): url is not used
ProcessHtml(content) ==
    IF Decodable(content)
    THEN Utf8Encode(InjectScript(InjectStyle(Utf8Decode(content))))
    ELSE content

\* ---- process_html applied to response bodies ----

MaxPieces == 3
MaxApply == 2

\* what bodies are made of: the three markers process_html looks for, a
\* letter, the two bytes of U+00E9, and a byte no UTF-8 text contains
BodyPieces == {HeadClose, BodyClose, BodyOpen, Text("x"), << 195, 169 >>, << 255 >>}

RECURSIVE Flatten(_, _)
\* the concatenation of pieces[k..]
Flatten(pieces, k) ==
    IF k > Len(pieces) THEN << >> ELSE pieces[k] \o Flatten(pieces, k + 1)

Bodies == {Flatten(f, 1) : f \in UNION {[1..n -> BodyPieces] : n \in 0..MaxPieces}}

\* content = process_html(content, url)
ProcessHtmlCall ==
    /\ body.op # "none"
    /\ body.applied < MaxApply
    /\ body' = [body EXCEPT !.op = "process_html",
                            !.content = ProcessHtml(body.content),
                            !.applied = @ + 1]
    /\ UNCHANGED << engineVars, now, computed, last, probe, addonVars,
                    monitorVars, threads, twin, host >>

InitHtml ==
    /\ Constructed(<< Config(TRUE, << {} >>, << {} >>, << >>) >>)
    /\ now = 0
    /\ computed = [k \in {} |-> 0]
    /\ last = NoCall("init")
    /\ probe = NoProbe
    /\ AddonIdle
    /\ \E b \in Bodies : body = [op |-> "received", original |-> b, content |-> b,
                                 applied |-> 0]
    /\ response_times = << >>
    /\ start_time = 0
    /\ samples = << >>
    /\ threads = << >>
    /\ twin = << >>
    /\ host = << >>

NextHtml == ProcessHtmlCall

SpecHtml == InitHtml /\ [][NextHtml]_vars

\* ------------------------------------------------------------------------
\* NetworkMonitor
\* ------------------------------------------------------------------------
\* time.time() reads whole seconds here, so a latency is an integer; an
\* average is kept as the fraction Python divides: [num |-> sum, den |-> len].

\* `if len(self.response_times) > 1000` and `self.response_times[-1000:]`
WindowSize == 1000

\* the NetworkMonitor object of the current state
Monitor ==
    [connections |-> connections, response_times |-> response_times,
     start_time |-> start_time]

\* self.response_times[-1000:]
LastSamples(times) ==
    IF Len(times) > WindowSize
    THEN SubSeq(times, Len(times) - WindowSize + 1, Len(times))
    ELSE times

\* a track_response that keeps the oldest samples of a full window
TrackResponseKeepingOldest(m, request_id, status_code, response_size, t) ==
    IF request_id \in DOMAIN m.connections
    THEN [m EXCEPT
            !.connections[request_id] =
                [status_code |-> status_code, response_size |-> response_size,
                 response_time |-> t - @.start_time, status |-> "completed"] @@ @,
            !.response_times =
                IF Len(@) >= WindowSize THEN @
                ELSE Append(@, t - m.connections[request_id].start_time)]
    ELSE m

\* a track_response that measures from the monitor's start_time
TrackResponseSinceStart(m, request_id, status_code, response_size, t) ==
    IF request_id \in DOMAIN m.connections
    THEN [m EXCEPT
            !.connections[request_id] =
                [status_code |-> status_code, response_size |-> response_size,
                 response_time |-> t - m.start_time, status |-> "completed"] @@ @,
            !.response_times = LastSamples(Append(@, t - m.start_time))]
    ELSE m

\* a track_response that makes the record it does not find
TrackResponseCreating(m, request_id, status_code, response_size, t) ==
    [m EXCEPT
       !.connections =
           (request_id :>
               ([status_code |-> status_code, response_size |-> response_size,
                 response_time |->
                     IF request_id \in DOMAIN @ THEN t - @[request_id].start_time
                     ELSE 0,
                 status |-> "completed"]
                @@ (IF request_id \in DOMAIN @ THEN @[request_id]
                    ELSE [start_time |-> t])))
           @@ @,
       !.response_times =
           LastSamples(Append(@, IF request_id \in DOMAIN m.connections
                                 THEN t - m.connections[request_id].start_time
                                 ELSE 0))]

\* NetworkMonitor.track_response, time.time() reading t
TrackResponse(m, request_id, status_code, response_size, t) ==
    IF request_id \in DOMAIN m.connections
    THEN [m EXCEPT
            !.connections[request_id] =
                [status_code |-> status_code, response_size |-> response_size,
                 response_time |-> t - @.start_time, status |-> "completed"] @@ @,
            !.response_times =
                LastSamples(Append(@, t - m.connections[request_id].start_time))]
    ELSE m

RECURSIVE SumRange(_, _, _)
\* sum(times[lo..hi])
SumRange(times, lo, hi) ==
    IF lo > hi THEN 0
    ELSE IF lo = hi THEN times[lo]
    ELSE SumRange(times, lo, (lo + hi) \div 2)
         + SumRange(times, (lo + hi) \div 2 + 1, hi)

RECURSIVE TotalBytes(_, _)
\* sum(conn.get('response_size', 0) for conn in the records of ids)
TotalBytes(conns, ids) ==
    IF ids = {} THEN 0
    ELSE LET id == CHOOSE i \in ids : TRUE
         IN  (IF "response_size" \in DOMAIN conns[id] THEN conns[id].response_size
              ELSE 0)
             + TotalBytes(conns, ids \ {id})

\* NetworkMonitor.get_stats, time.time() reading t; requests_per_second is
\* completed_requests / uptime, or 0 when uptime is not positive
GetStats(m, t) ==
    [uptime |-> t - m.start_time,
     total_requests |-> Cardinality(DOMAIN m.connections),
     completed_requests |->
         Cardinality({id \in DOMAIN m.connections :
                         m.connections[id].status = "completed"}),
     average_response_time |->
         IF m.response_times # << >>
         THEN [num |-> SumRange(m.response_times, 1, Len(m.response_times)),
               den |-> Len(m.response_times)]
         ELSE [num |-> 0, den |-> 1],
     total_bytes_transferred |-> TotalBytes(m.connections, DOMAIN m.connections),
     requests_per_second |->
         IF t - m.start_time > 0
         THEN [num |-> Cardinality({id \in DOMAIN m.connections :
                                       m.connections[id].status = "completed"}),
               den |-> t - m.start_time]
         ELSE [num |-> 0, den |-> 1]]

\* the NetworkMonitor object becomes m
MonitorBecomes(m) ==
    /\ connections' = m.connections
    /\ response_times' = m.response_times
    /\ start_time' = m.start_time

\* `last` after a call of the monitor: what the monitor was and reported
\* when the call was made
MonitorCall(op, request_id, status_code, response_size) ==
    [id |-> request_id, status_code |-> status_code,
     response_size |-> response_size,
     known |-> request_id \in DOMAIN connections,
     before |-> Monitor, stats |-> GetStats(Monitor, now)] @@ NoCall(op)

\* monitor.track_request(request_id, url, method)
MonitorRequest(request_id, url, method) ==
    /\ connections' = TrackRequest(connections, request_id, url, method, now)
    /\ last' = MonitorCall("track_request", request_id, 0, 0)
    /\ UNCHANGED << engineVars, now, computed, probe, total_requests,
                    blocked_requests, flow, body, response_times, start_time,
                    samples, threads, twin, host >>

\* monitor.track_response(request_id, status_code, response_size)
MonitorResponse(request_id, status_code, response_size) ==
    /\ MonitorBecomes(TrackResponse(Monitor, request_id, status_code,
                                    response_size, now))
    /\ samples' = IF request_id \in DOMAIN connections
                  THEN Append(samples, now - connections[request_id].start_time)
                  ELSE samples
    /\ last' = MonitorCall("track_response", request_id, status_code, response_size)
    /\ UNCHANGED << engineVars, now, computed, probe, total_requests,
                    blocked_requests, flow, body, threads, twin, host >>

\* ---- the monitor called with known and unknown ids as the clock moves ----

MaxResponses == 3

MonitorIds == {"r1", "r2"}
MonitorSizes == {0, 1500}

InitMonitor ==
    /\ Constructed(<< Config(TRUE, << {} >>, << {} >>, << >>) >>)
    /\ now = 0
    /\ computed = [k \in {} |-> 0]
    /\ last = NoCall("init")
    /\ probe = NoProbe
    /\ AddonIdle
    /\ SideIdle

NextMonitor ==
    \/ \E id \in MonitorIds : MonitorRequest(id, ProbeURL, "GET")
    \/ \E id \in MonitorIds, size \in MonitorSizes :
          /\ Len(samples) < MaxResponses
          /\ MonitorResponse(id, 200, size)
    \/ \E d \in Ticks : Tick(d)

SpecMonitor == InitMonitor /\ [][NextMonitor]_vars

\* ---- one request answered once a second, beyond the window's size ----

MaxSamples == 1001

\* a second passes between two responses
WindowTick ==
    /\ "r1" \in DOMAIN connections
    /\ now = Len(samples)
    /\ now < MaxSamples
    /\ now' = now + 1
    /\ last' = NoCall("tick")
    /\ UNCHANGED << engineVars, computed, probe, addonVars, sideVars >>

NextWindow ==
    \/ /\ "r1" \notin DOMAIN connections
       /\ MonitorRequest("r1", ProbeURL, "GET")
    \/ /\ Len(samples) < now
       /\ MonitorResponse("r1", 200, 1500)
    \/ WindowTick

SpecWindow == InitMonitor /\ [][NextWindow]_vars

\* ------------------------------------------------------------------------
\* OblivionFilterAddon.request dispatched in parallel
\* ------------------------------------------------------------------------
\* The handler takes no lock (the module has none), so callbacks running in
\* parallel interleave between their accesses of the shared objects.  Each
\* `+= 1` on a counter is a read of the attribute and a later write of it;
\* track_request is one dict store; should_block is taken in one step, which
\* leaves out interleavings but adds none.

MaxParallel == 2

\* a callback that has not started: its flow and its locals
Callback(id, url, fields) ==
    [pc |-> "start", id |-> id, url |-> url, method |-> "GET", sent |-> fields,
     tmp |-> 0, should_block |-> FALSE, headers |-> fields, response |-> << >>]

\* thread i moves on to pc with locals changed as in `changes`
ThreadStep(i, from, changes) ==
    /\ i \in DOMAIN threads
    /\ threads[i].pc = from
    /\ threads' = [threads EXCEPT ![i] = changes @@ @]

\* self.total_requests += 1: the attribute is read
LoadTotal(i) ==
    /\ ThreadStep(i, "start", [pc |-> "loaded", tmp |-> total_requests])
    /\ last' = NoCall("request")
    /\ UNCHANGED << engineVars, now, computed, probe, addonVars, body,
                    monitorVars, twin, host >>

\* self.total_requests += 1: the sum is written back
StoreTotal(i) ==
    /\ ThreadStep(i, "loaded", [pc |-> "counted"])
    /\ total_requests' = threads[i].tmp + 1
    /\ last' = NoCall("request")
    /\ UNCHANGED << engineVars, now, computed, probe, blocked_requests,
                    connections, flow, body, monitorVars, twin, host >>

\* self.network_monitor.track_request(request_id, url, method)
TrackStep(i) ==
    /\ ThreadStep(i, "counted", [pc |-> "tracked"])
    /\ connections' = TrackRequest(connections, threads[i].id, threads[i].url,
                                   threads[i].method, now)
    /\ last' = NoCall("request")
    /\ UNCHANGED << engineVars, now, computed, probe, total_requests,
                    blocked_requests, flow, body, monitorVars, twin, host >>

\* should_block has returned d to thread i: a request that is not blocked
\* gets its stealth headers, a blocked one goes on to count itself
Decided(d, i, headers, content_type) ==
    /\ ThreadStep(i, "tracked",
                  [pc |-> IF d.blocked THEN "blocking" ELSE "done",
                   should_block |-> d.blocked,
                   headers |-> IF d.blocked THEN threads[i].sent
                               ELSE AddStealthHeaders(threads[i].sent)])
    /\ ShouldBlockReturns(d, CacheKey(threads[i].method, threads[i].url),
                          threads[i].url, threads[i].method, SomeDict(headers),
                          content_type)
    /\ UNCHANGED << now, probe, addonVars, body, monitorVars, twin, host >>

\* headers = dict(flow.request.headers) and self.filter_engine.should_block(...)
DecideStep(i) ==
    /\ i \in DOMAIN threads
    /\ threads[i].pc = "tracked"
    /\ Decided(Decide(Engine, now, threads[i].url, threads[i].method,
                      SomeDict(HeaderDict(threads[i].sent)),
                      DictGet(HeaderDict(threads[i].sent), "content-type", "")),
               i, HeaderDict(threads[i].sent),
               DictGet(HeaderDict(threads[i].sent), "content-type", ""))

\* self.blocked_requests += 1: the attribute is read
LoadBlocked(i) ==
    /\ ThreadStep(i, "blocking", [pc |-> "bloaded", tmp |-> blocked_requests])
    /\ last' = NoCall("request")
    /\ UNCHANGED << engineVars, now, computed, probe, addonVars, body,
                    monitorVars, twin, host >>

\* self.blocked_requests += 1: the sum is written back, and the flow gets
\* its 403 response
StoreBlocked(i) ==
    /\ ThreadStep(i, "bloaded", [pc |-> "done", response |-> << BlockedResponse >>])
    /\ blocked_requests' = threads[i].tmp + 1
    /\ last' = NoCall("request")
    /\ UNCHANGED << engineVars, now, computed, probe, total_requests,
                    connections, flow, body, monitorVars, twin, host >>

\* the engine blacklists domain a; every callback has a flow of its own
InitParallel ==
    /\ Constructed(<< Config(TRUE, << {} >>, << {"a"} >>, << >>) >>)
    /\ now = 0
    /\ computed = [k \in {} |-> 0]
    /\ last = NoCall("init")
    /\ probe = NoProbe
    /\ AddonIdle
    /\ body = [op |-> "none"]
    /\ response_times = << >>
    /\ start_time = 0
    /\ samples = << >>
    /\ twin = << >>
    /\ host = << >>
    /\ \E urls \in [1..MaxParallel -> FlowURLs], fields \in FlowHeaders :
          threads = [i \in 1..MaxParallel |-> Callback(i, urls[i], fields)]

NextParallel ==
    \E i \in 1..MaxParallel :
        \/ LoadTotal(i)
        \/ StoreTotal(i)
        \/ TrackStep(i)
        \/ DecideStep(i)
        \/ LoadBlocked(i)
        \/ StoreBlocked(i)

SpecParallel == InitParallel /\ [][NextParallel]_vars

\* ------------------------------------------------------------------------
\* Two engines given the same calls, their rules differing in priority only
\* ------------------------------------------------------------------------

\* two rules of the domain tier with opposite actions, and a literal rule
TwinRules ==
    {Rule("zz", "allow", "a", "", TRUE), Rule("zz", "block", "a", "", TRUE),
     Rule("x", "block", "", "", TRUE)}
TwinPriorities == {0, 7}

\* the second engine and what its last should_block returned
Twin(e, returned) == [engine |-> e, returned |-> returned]

\* add_rule(rule) on both engines, the rule's priority being the default 0
\* on the first and q on the second
TwinAddRule(rule, q) ==
    /\ WithinBounds(AddRuleTo(Engine, rule))
    /\ EngineBecomes(AddRuleTo(Engine, rule))
    /\ twin' = Twin(AddRuleTo(twin.engine, [rule EXCEPT !.priority = q]), << >>)
    /\ last' = NoCall("add_rule")
    /\ UNCHANGED << now, computed, probe, addonVars, body, monitorVars, threads, host >>

\* should_block has returned d on the first engine and d2 on the second
TwinReturns(d, d2, key, url) ==
    /\ ShouldBlockReturns(d, key, url, "GET", NoDict, "")
    /\ twin' = Twin(IF d2.stored THEN UpdateCache(twin.engine, key, d2.blocked, now)
                    ELSE twin.engine,
                    << d2 >>)
    /\ UNCHANGED << now, probe, addonVars, body, monitorVars, threads, host >>

\* should_block(url) on both engines
TwinShouldBlock(url) ==
    TwinReturns(Decide(Engine, now, url, "GET", NoDict, ""),
                Decide(twin.engine, now, url, "GET", NoDict, ""),
                CacheKey("GET", url), url)

InitTwin ==
    /\ Constructed(<< Config(TRUE, << {} >>, << {} >>, << >>) >>)
    /\ now = 0
    /\ computed = [k \in {} |-> 0]
    /\ last = NoCall("init")
    /\ probe = NoProbe
    /\ AddonIdle
    /\ body = [op |-> "none"]
    /\ response_times = << >>
    /\ start_time = 0
    /\ samples = << >>
    /\ threads = << >>
    /\ twin = Twin(Construct(<< Config(TRUE, << {} >>, << {} >>, << >>) >>), << >>)
    /\ host = << >>

NextTwin ==
    \/ \E rule \in TwinRules, q \in TwinPriorities : TwinAddRule(rule, q)
    \/ \E url \in FlowURLs : TwinShouldBlock(url)
    \/ \E d \in Ticks : Tick(d)

SpecTwin == InitTwin /\ [][NextTwin]_vars

\* ------------------------------------------------------------------------
\* OblivionProxy.get_stats
\* ------------------------------------------------------------------------

\* a / b of Python: the fraction, or ZeroDivisionError raised when b is 0
Quotient(a, b) == [num |-> a, den |-> b, raised |-> b = 0]

\* the literal 0 where a quotient may stand
Zero == [num |-> 0, den |-> 1, raised |-> FALSE]

\* get_stats that divides whatever total_requests is
ProxyGetStatsUnguarded(m, total, blocked, t) ==
    [network |-> GetStats(m, t),
     filtering |-> [total_requests |-> total, blocked_requests |-> blocked,
                    block_rate |-> Quotient(blocked, total)]]

\* OblivionProxy.get_stats on the monitor m and the addon's two counters
ProxyGetStats(m, total, blocked, t) ==
    [network |-> GetStats(m, t),
     filtering |-> [total_requests |-> total, blocked_requests |-> blocked,
                    block_rate |-> IF total > 0 THEN Quotient(blocked, total)
                                   ELSE Zero]]

\* proxy.get_stats()
ProxyGetStatsCall ==
    /\ last' = [stats |-> ProxyGetStats(Monitor, total_requests, blocked_requests,
                                        now)] @@ NoCall("get_stats")
    /\ UNCHANGED << engineVars, now, computed, probe, addonVars, sideVars >>

\* ---- the proxy: requests handled one after the other, statistics read ----

NextProxy ==
    \/ \E id \in FlowIds, url \in FlowURLs : Request(id, url, "GET", << >>)
    \/ \E rule \in AddonRules : AddRule(rule)
    \/ ProxyGetStatsCall

SpecProxy == InitAddon /\ [][NextProxy]_vars

\* ------------------------------------------------------------------------
\* OblivionFilterAddon.response
\* ------------------------------------------------------------------------
\* A response is [status_code, headers, content]: the header fields as for a
\* request, the content as bytes.  flow.response is <<>> for None and <<r>>
\* for the response r.

\* bodies: none, a page with both closing tags, one that is no UTF-8, text
ResponseBodies ==
    {<< >>, HeadClose \o BodyClose, << 255 >> \o HeadClose, Text("x")}

\* process_html on each of these bodies, worked out once
RewriteTable == [content \in ResponseBodies |-> ProcessHtml(content)]

\* self.content_processor.process_html(content, url), read from the table
ProcessHtmlOf(content) == RewriteTable[content]

\* flow.response.headers.get(name, default), the name being there once at most
HeadersGet(fields, name, default) ==
    IF HeaderIn(fields, name) THEN HeaderGet(fields, name) ELSE default

RECURSIVE AddSecurityHeaders(_, _)
\* OblivionFilterAddon._add_security_headers: the assignments from the k-th on
AddSecurityHeaders(fields, k) ==
    IF k > Len(SecurityHeaders) THEN fields
    ELSE AddSecurityHeaders(HeaderSet(fields, SecurityHeaders[k][1],
                                      SecurityHeaders[k][2]), k + 1)

\* the rewriter is called on this response
Rewrites(r) ==
    /\ ContentTypeIn("text/html", HeadersGet(r.headers, "content-type", ""))
    /\ r.content # << >>

\* the body the handler leaves in the response
Rewritten(r) == IF Rewrites(r) THEN ProcessHtmlOf(r.content) ELSE r.content

\* a handler that rewrites the body first and tracks the response after
HandleResponseTrackingLast(m, request_id, response, t) ==
    IF response = << >> THEN [monitor |-> m, response |-> response]
    ELSE [monitor |-> TrackResponse(m, request_id, response[1].status_code,
                                    Len(Rewritten(response[1])), t),
          response |-> << [status_code |-> response[1].status_code,
                           headers |-> AddSecurityHeaders(response[1].headers, 1),
                           content |-> Rewritten(response[1])] >>]

\* what OblivionFilterAddon.response does to the monitor m and to
\* flow.response, time.time() reading t
HandleResponse(m, request_id, response, t) ==
    IF response = << >> THEN [monitor |-> m, response |-> response]
    ELSE [monitor |-> TrackResponse(m, request_id, response[1].status_code,
                                    Len(response[1].content), t),
          response |-> << [status_code |-> response[1].status_code,
                           headers |-> AddSecurityHeaders(response[1].headers, 1),
                           content |-> Rewritten(response[1])] >>]

\* the handler has left h
ResponseHandled(h, id, url, response) ==
    /\ MonitorBecomes(h.monitor)
    /\ samples' = IF h.monitor.response_times # response_times
                  THEN Append(samples, now - connections[id].start_time)
                  ELSE samples
    /\ flow' = [op |-> "response", id |-> id, url |-> url, received |-> response,
                response |-> h.response]
    /\ last' = NoCall("response")
    /\ UNCHANGED << engineVars, now, computed, probe, total_requests,
                    blocked_requests, body, threads, twin, host >>

\* OblivionFilterAddon.response(flow)
Response(id, url, response) ==
    ResponseHandled(HandleResponse(Monitor, id, response, now), id, url, response)

\* ---- requests and their responses, the clock standing still ----

\* flow.response: None, or a response
Responses ==
    {<< >>} \cup {<< [status_code |-> 200, headers |-> fields, content |-> content] >> :
                     fields \in ResponseFields, content \in ResponseBodies}

NextResponse ==
    \/ \E id \in FlowIds : Request(id, "http://b/x", "GET", << >>)
    \/ \E id \in FlowIds, response \in Responses :
          /\ Len(samples) < MaxResponses
          /\ Response(id, "http://b/x", response)

SpecResponse == InitMonitor /\ [][NextResponse]_vars

\* ------------------------------------------------------------------------
\* The native messaging host (src/native/messaging/native_host.py)
\* ------------------------------------------------------------------------
\* A JSON value is [t, s]: its type and its text.  A message that is a mapping
\* is [dict |-> TRUE, ...] with one entry per key handle_message reads, each
\* <<>> when the key is absent and <<v>> when it has the value v; any other
\* JSON value but null is [dict |-> FALSE, ...].  A return value is <<>> for
\* None and <<r>> for the mapping r.

Json(t, s) == [t |-> t, s |-> s]
Str(s) == Json("str", s)

\* bool(v) of Python for a JSON value
JsonTruthy(v) ==
    CASE v.t = "str" -> v.s # ""
      [] v.t = "bool" -> v.s = "true"
      [] v.t = "num" -> v.s # "0"
      [] v.t = "list" -> v.s # "[]"
      [] OTHER -> FALSE

\* len(v) works on the value
JsonSized(v) == v.t \in {"str", "list"}

Message(action, domain, enabled, filters) ==
    [dict |-> TRUE, action |-> action, domain |-> domain, enabled |-> enabled,
     filters |-> filters]

\* a JSON list, string or number sent as the message
NoMapping == [dict |-> FALSE, action |-> << >>, domain |-> << >>, enabled |-> << >>,
              filters |-> << >>]

\* ProxyController as __init__ leaves it: no proxy process started
NewController == [filtering_enabled |-> Json("bool", "true"), proxy_port |-> 8080]

\* the mapping a branch of handle_message returns
Reply(success, key, value) == << [success |-> success, key |-> key, value |-> value] >>

\* the except clause of handle_message
Failed(c) == [controller |-> c, response |-> Reply(FALSE, "error", "str(e)")]

\* NativeMessagingHost.handle_message on the controller c; `raises`: the
\* controller method the branch calls raises
HandleMessage(c, message, raises) ==
    IF ~message.dict THEN Failed(c)
    ELSE IF message.action = << Str("get_status") >>
    THEN IF raises THEN Failed(c)
         ELSE [controller |-> c, response |-> Reply(TRUE, "data", "status")]
    ELSE IF message.action = << Str("update_filters") >>
    THEN IF raises THEN Failed(c)
         ELSE IF message.filters = << >> \/ JsonSized(message.filters[1])
         THEN [controller |-> c, response |-> Reply(TRUE, "message", "Filters updated")]
         ELSE [controller |-> c,
               response |-> Reply(FALSE, "message", "Failed to update filters")]
    ELSE IF message.action = << Str("toggle_filtering") >>
    THEN IF raises THEN Failed(c)
         ELSE LET enabled == IF message.enabled = << >> THEN Json("bool", "true")
                             ELSE message.enabled[1]
              IN  [controller |-> [c EXCEPT !.filtering_enabled = enabled],
                   response |-> Reply(TRUE, "message",
                                      IF JsonTruthy(enabled) THEN "Filtering enabled"
                                      ELSE "Filtering disabled")]
    ELSE IF message.action = << Str("get_stats") >>
    THEN IF raises THEN Failed(c)
         ELSE [controller |-> c, response |-> Reply(TRUE, "data", "stats")]
    ELSE IF message.action = << Str("whitelist_domain") >>
    THEN IF message.domain # << >> /\ JsonTruthy(message.domain[1])
         THEN IF raises THEN Failed(c)
              ELSE [controller |-> c,
                    response |-> Reply(TRUE, "message", "Domain whitelisted")]
         ELSE [controller |-> c, response |-> << >>]
    ELSE IF message.action = << Str("blacklist_domain") >>
    THEN IF message.domain # << >> /\ JsonTruthy(message.domain[1])
         THEN IF raises THEN Failed(c)
              ELSE [controller |-> c,
                    response |-> Reply(TRUE, "message", "Domain blacklisted")]
         ELSE [controller |-> c, response |-> << >>]
    ELSE IF message.action = << Str("generate_pac") >>
    THEN IF raises THEN Failed(c)
         ELSE [controller |-> c, response |-> Reply(TRUE, "data", "pac_content")]
    ELSE [controller |-> c, response |-> Reply(FALSE, "error", "Unknown action")]

\* What read_message finds on stdin.  "message": a frame whose text is the
\* JSON value `message`; "null": a frame whose text is the JSON null; "empty":
\* a frame of length zero; "garbage": a short length, a short body or text
\* that is no JSON.
Frame(kind, message) == [kind |-> kind, message |-> message]

\* read_message on the frames left: <<>> for None
ReadMessage(stdin) ==
    IF stdin = << >> THEN << >>
    ELSE IF Head(stdin).kind = "message" THEN << Head(stdin).message >>
    ELSE << >>

\* send_message that lets the error of a failed write reach run, which ends
SendMessageRaising(h, written) ==
    IF written
    THEN [h EXCEPT !.stdout = Append(@, [of |-> h.read, response |-> h.response]),
                   !.pc = "read"]
    ELSE [h EXCEPT !.pc = "stopped"]

\* send_message: the frame of json.dumps(response) is written and flushed, or
\* the write raises and the except clause logs it
SendMessage(h, written) ==
    IF written
    THEN [h EXCEPT !.stdout = Append(@, [of |-> h.read, response |-> h.response]),
                   !.pc = "read"]
    ELSE [h EXCEPT !.failed = @ \cup {h.read}, !.pc = "read"]

HostIdle ==
    UNCHANGED << engineVars, now, computed, last, probe, addonVars, body,
                 response_times, start_time, samples, threads, twin >>

\* run: message = self.read_message(); if message is None: break
HostRead ==
    /\ host.pc = "read"
    /\ LET message == ReadMessage(host.stdin)
       IN  host' = IF message = << >>
                   THEN [host EXCEPT !.stdin = IF @ = << >> THEN @ ELSE Tail(@),
                                     !.pc = "stopped"]
                   ELSE [host EXCEPT !.stdin = Tail(@), !.message = message[1],
                                     !.read = @ + 1, !.pc = "handle"]
    /\ HostIdle

\* run: response = self.handle_message(message)
HostHandle(raises) ==
    /\ host.pc = "handle"
    /\ LET handled == HandleMessage(host.controller, host.message, raises)
       IN  host' = [host EXCEPT !.controller = handled.controller,
                                !.response = handled.response,
                                !.raised = raises, !.pc = "send"]
    /\ HostIdle

\* run: self.send_message(response)
HostSend(written) ==
    /\ host.pc = "send"
    /\ host' = SendMessage(host, written)
    /\ HostIdle

MaxFrames == 2

HostDomains == << << >>, << Str("") >>, << Json("null", "null") >>, << Str("ads.example") >> >>

HostMessages ==
    {Message(<< Str(a) >>, << >>, << >>, << >>) :
        a \in {"get_status", "get_stats", "generate_pac", "update_filters",
               "toggle_filtering", "reload"}}
    \cup {Message(<< Str(a) >>, HostDomains[i], << >>, << >>) :
            a \in {"whitelist_domain", "blacklist_domain"}, i \in 1..Len(HostDomains)}
    \cup {Message(<< Str("toggle_filtering") >>, << >>, << Json("bool", "false") >>, << >>),
          Message(<< Str("update_filters") >>, << >>, << >>, << Json("list", "[]") >>),
          Message(<< Str("update_filters") >>, << >>, << >>, << Json("num", "5") >>),
          Message(<< >>, << >>, << >>, << >>),
          Message(<< Json("num", "1") >>, << >>, << >>, << >>),
          NoMapping}

HostFrames ==
    {Frame("message", message) : message \in HostMessages}
    \cup {Frame(kind, NoMapping) : kind \in {"null", "empty", "garbage"}}

HostInputs == UNION {[1..n -> HostFrames] : n \in 0..MaxFrames}

InitHost ==
    /\ Constructed(<< Config(TRUE, << {} >>, << {} >>, << >>) >>)
    /\ now = 0
    /\ computed = [k \in {} |-> 0]
    /\ last = NoCall("init")
    /\ probe = NoProbe
    /\ AddonIdle
    /\ body = [op |-> "none"]
    /\ response_times = << >>
    /\ start_time = 0
    /\ samples = << >>
    /\ threads = << >>
    /\ twin = << >>
    /\ \E stdin \in HostInputs :
          host = [controller |-> NewController, stdin |-> stdin, stdout |-> << >>,
                  pc |-> "read", message |-> NoMapping, response |-> << >>,
                  raised |-> FALSE, read |-> 0, failed |-> {}]

NextHost ==
    \/ HostRead
    \/ \E raises \in BOOLEAN : HostHandle(raises)
    \/ \E written \in BOOLEAN : HostSend(written)

SpecHost == InitHost /\ [][NextHost]_vars

\* ------------------------------------------------------------------------
\* Properties of should_block
\* ------------------------------------------------------------------------

\* the state is the one a should_block call has just left
Called == last.op = "should_block"

\* a verdict for the key of the last call was computed less than cache_ttl
\* seconds before the call
FreshBefore == last.prev # << >> /\ now < last.prev[1].at + cache_ttl

\* the last call found no fresh verdict for its key
Missed == Called /\ ~FreshBefore

\* the rule objects an index holds under a key
IndexedUnder(index, key) ==
    IF key \in DOMAIN index THEN {index[key][j] : j \in 1..Len(index[key])} ELSE {}

\* the rules of a tier that a request for url reaches: tier 1 is the domain
\* index, 2 the path index, 3 the regex index, 4 the literal fallback
TierMembers(tier, url) ==
    CASE tier = 1 -> IndexedUnder(domain_rules, StrLower(UrlNetloc(url)))
      [] tier = 2 -> IndexedUnder(path_rules, UrlPath(url))
      [] tier = 3 -> {regex_rules[j][2] : j \in {i \in 1..Len(regex_rules) :
                          PatternSearch(regex_rules[i][1], url)}}
      [] tier = 4 -> {k \in 1..Len(rules) :
                          /\ rules[k].domain = "" /\ rules[k].path = ""
                          /\ ~PatternHasMeta(rules[k].pattern)
                          /\ PatternIn(rules[k].pattern, url)}

\* the rules of a tier that are enabled and whose constraints the last request meets
TierApplicable(tier) ==
    {k \in TierMembers(tier, last.url) :
        MatchRule(rules[k], last.url, last.method, last.headers, last.content_type)}

\* the verdict and the deciding rule the precedence order gives the last
\* request: whitelist, blacklist, then the first applicable rule, in insertion
\* order, of the highest tier that has one, then allow
ByPrecedence ==
    LET domain == StrLower(UrlNetloc(last.url))
        tiers  == {t \in 1..4 : TierApplicable(t) # {}}
        top    == CHOOSE t \in tiers : \A u \in tiers : t <= u
        first  == CHOOSE k \in TierApplicable(top) : \A j \in TierApplicable(top) : k <= j
    IN  IF domain \in whitelist_domains THEN [blocked |-> FALSE, rule |-> 0]
        ELSE IF domain \in blacklist_domains THEN [blocked |-> TRUE, rule |-> 0]
        ELSE IF tiers # {} THEN [blocked |-> rules[first].action = "block", rule |-> first]
        ELSE [blocked |-> FALSE, rule |-> 0]

\* C1 as stated: a should_block call for a URL whose authority is whitelisted
\* returns blocked = false, whatever was decided earlier for the same key
C1_WhitelistedNeverBlocked ==
    (Called /\ StrLower(UrlNetloc(last.url)) \in whitelist_domains) => ~last.blocked

\* C1 amended: a should_block call that finds no fresh cached verdict for its
\* key returns blocked = false when the lower-cased authority is whitelisted,
\* whatever the blacklist and the rules say
C1_WhitelistedNotBlockedOnMiss ==
    (Missed /\ StrLower(UrlNetloc(last.url)) \in whitelist_domains) => ~last.blocked

\* a call for a whitelisted and blacklisted domain whose verdict, blocked, had
\* expired: it is recomputed and the whitelist decides
C1_Witness ==
    /\ Missed
    /\ StrLower(UrlNetloc(last.url)) \in whitelist_domains \cap blacklist_domains
    /\ last.prev # << >>
    /\ last.prev[1].blocked
    /\ ~last.blocked

\* C2 as stated: a should_block call for a URL whose authority is blacklisted
\* and not whitelisted returns blocked = true, whatever was decided earlier
C2_BlacklistedAlwaysBlocked ==
    (/\ Called
     /\ StrLower(UrlNetloc(last.url)) \in blacklist_domains
     /\ StrLower(UrlNetloc(last.url)) \notin whitelist_domains) => last.blocked

\* C2 amended: a should_block call that finds no fresh cached verdict for its
\* key returns blocked = true when the lower-cased authority is blacklisted and
\* not whitelisted
C2_BlacklistedBlockedOnMiss ==
    (/\ Missed
     /\ StrLower(UrlNetloc(last.url)) \in blacklist_domains
     /\ StrLower(UrlNetloc(last.url)) \notin whitelist_domains) => last.blocked

\* a call for a blacklisted domain whose verdict, not blocked, had expired
C2_Witness ==
    /\ Missed
    /\ StrLower(UrlNetloc(last.url)) \in blacklist_domains \ whitelist_domains
    /\ last.prev # << >>
    /\ ~last.prev[1].blocked
    /\ last.blocked

\* C3: on a cache miss should_block returns the verdict and the rule of the
\* precedence order whitelist > blacklist > domain index > path index > regex
\* index > literal fallback > allow, the first applicable rule of a tier deciding
C3_PrecedenceOnMiss ==
    Missed => (/\ last.blocked = ByPrecedence.blocked
               /\ last.rule = ByPrecedence.rule)

\* a miss decided by a rule of one tier although a rule of a lower tier, added
\* before it and of the other action, applies as well
C3_Witness ==
    /\ Missed
    /\ last.rule # 0
    /\ \E t \in 1..3 :
          /\ last.rule \in TierApplicable(t)
          /\ \E u \in (t + 1)..4 : \E k \in TierApplicable(u) :
                /\ k < last.rule
                /\ (rules[k].action = "block") # last.blocked

\* C4: a should_block call made less than cache_ttl seconds after a verdict
\* was computed for the same (method, url) returns that verdict
C4_SameVerdictWithinTtl ==
    (Called /\ FreshBefore) => last.blocked = last.prev[1].blocked

\* a call within the window that returns a verdict the lists and rules of the
\* moment no longer give
C4_Witness ==
    /\ Called
    /\ FreshBefore
    /\ last.blocked # ByPrecedence.blocked

\* C5: a should_block call for a key never stored, or made cache_ttl seconds
\* or more after the verdict was stored, returns the verdict of the current
\* lists and rules and stores it with the expiry now + cache_ttl
C5_RecomputedOnExpiry ==
    Missed => LET key == last.method \o ":" \o last.url
              IN  /\ last.blocked = ByPrecedence.blocked
                  /\ key \in DOMAIN cache
                  /\ cache[key] = last.blocked
                  /\ key \in DOMAIN cache_expiry
                  /\ cache_expiry[key] = now + cache_ttl

\* a call made exactly cache_ttl seconds after the store, which returns the
\* opposite of the verdict stored
C5_Witness ==
    /\ Called
    /\ last.prev # << >>
    /\ now = last.prev[1].at + cache_ttl
    /\ last.blocked # last.prev[1].blocked

\* the engine add_rule builds from the enabled rules alone, with the same lists
WithoutDisabled ==
    AddRulesTo([NewEngine EXCEPT !.whitelist_domains = whitelist_domains,
                                 !.blacklist_domains = blacklist_domains],
               SelectSeq(rules, LAMBDA r : r.enabled), 1)

\* the position in rules of the k-th enabled rule
EnabledPosition(k) ==
    CHOOSE i \in 1..Len(rules) :
        /\ rules[i].enabled
        /\ Cardinality({j \in 1..i : rules[j].enabled}) = k

\* C6: on a cache miss should_block returns what it returns with every
\* disabled rule removed from the rule set: the same verdict, by the same rule
C6_DisabledRulesNeverDecide ==
    Missed => LET d == Decide(WithoutDisabled, now, last.url, last.method,
                              last.headers, last.content_type)
              IN  /\ last.blocked = d.blocked
                  /\ (last.rule = 0) = (d.rule = 0)
                  /\ d.rule # 0 => last.rule = EnabledPosition(d.rule)

\* a miss for which a disabled rule is the first of its tier and a later rule
\* of another action decides
C6_Witness ==
    /\ Missed
    /\ last.rule # 0
    /\ \E t \in 1..4 : \E k \in TierMembers(t, last.url) :
          /\ k < last.rule
          /\ ~rules[k].enabled
          /\ (rules[k].action = "block") # last.blocked
          /\ last.rule \in TierMembers(t, last.url)

\* C7 as stated: a rule with a header constraint matches only a request whose
\* headers carry every listed name with exactly the listed value, so a
\* request that supplies no headers does not match it
C7_HeaderConstraintNeedsHeaders ==
    (probe.called /\ Truthy(probe.rule.headers) /\ probe.result)
        => /\ probe.headers # NoDict
           /\ HeadersAgree(probe.rule.headers[1], probe.headers[1])

HandledRequest == flow.op = "request"

\* the seven headers the adapter supplies on a request it lets through
SuppliedHeaderNames ==
    {"user-agent", "accept", "accept-language", "accept-encoding", "dnt",
     "connection", "upgrade-insecure-requests"}

\* C8 as stated: on a request that is let through, each of the seven supplied
\* headers keeps the value the client sent whenever the client sent one
C8_DefaultsOnlyWhenAbsent ==
    (HandledRequest /\ ~flow.should_block)
        => \A name \in SuppliedHeaderNames :
              HeaderIn(flow.sent, name)
                  => HeaderGet(flow.headers, name) = HeaderGet(flow.sent, name)

\* C9: when should_block returned blocked the handler has set a 403 response,
\* counted one more blocked request and left the request headers as sent;
\* when it returned not blocked there is no response and none of the five
\* proxy headers is on the request
C9_RequestOutcome ==
    HandledRequest =>
        IF flow.should_block
        THEN /\ flow.response # << >>
             /\ flow.response[1].status_code = 403
             /\ flow.response[1].content = "Request blocked by OblivionFilter"
             /\ blocked_requests = flow.blocked_before + 1
             /\ flow.headers = flow.sent
        ELSE /\ flow.response = << >>
             /\ \A name \in StealthRemoved : ~HeaderIn(flow.headers, name)

\* a blocked request arrived carrying a proxy header and lacking a default one
C9_Witness ==
    /\ HandledRequest
    /\ flow.should_block
    /\ HeaderIn(flow.sent, "via")
    /\ ~HeaderIn(flow.sent, "accept")
    /\ blocked_requests = 2

\* rule k is in tier t: the domain index, the path index, the regex index, or
\* the rules the fallback pass of should_block evaluates
InTier(t, k) ==
    CASE t = 1 -> \E d \in DOMAIN domain_rules : k \in IndexedUnder(domain_rules, d)
      [] t = 2 -> \E q \in DOMAIN path_rules : k \in IndexedUnder(path_rules, q)
      [] t = 3 -> \E j \in 1..Len(regex_rules) : regex_rules[j][2] = k
      [] t = 4 -> /\ rules[k].domain = "" /\ rules[k].path = ""
                  /\ ~PatternHasMeta(rules[k].pattern)

\* C10 as stated: every rule is in at most one of the four tiers
C10_AtMostOneTier ==
    \A k \in 1..Len(rules) : Cardinality({t \in 1..4 : InTier(t, k)}) <= 1

\* C11: when should_block has returned, by whichever exit, the cache holds
\* under method + ':' + url the blocked value returned, and its expiry is
\* later than the current time
C11_ReturnedVerdictIsCached ==
    Called =>
        LET key == CacheKey(last.method, last.url)
        IN  /\ key \in DOMAIN cache
            /\ cache[key] = last.blocked
            /\ key \in DOMAIN cache_expiry
            /\ cache_expiry[key] > now

\* a call made after the entry for its key had expired, answered by a regex
\* rule that blocks
C11_Witness ==
    /\ Called
    /\ last.prev # << >>
    /\ now >= last.prev[1].at + cache_ttl
    /\ last.exit = "regex"
    /\ last.blocked

\* C12 as stated: after a load_config that failed, the rule sequence and the
\* indices are those load_default_rules alone produces and the whitelist and
\* the blacklist are empty
C12_FailedLoadLeavesDefaultsOnly ==
    (last.op = "load_config" /\ last.exit = "except")
        => /\ rules = DefaultRules
           /\ domain_rules = LoadDefaultRulesTo(NewEngine).domain_rules
           /\ path_rules = LoadDefaultRulesTo(NewEngine).path_rules
           /\ regex_rules = LoadDefaultRulesTo(NewEngine).regex_rules
           /\ whitelist_domains = {}
           /\ blacklist_domains = {}

\* the pattern has a regex metacharacter and re.compile rejects it
Uncompilable(rule) == PatternHasMeta(rule.pattern) /\ ~PatternCompiles(rule.pattern)

WellFormedOriginal ==
    /\ body.op # "none"
    /\ Decodable(body.original)
    /\ Contains(Utf8Decode(body.original), HeadClose)
    /\ Contains(Utf8Decode(body.original), BodyClose)
    /\ ~Contains(Utf8Decode(body.original), StyleTag)
    /\ ~Contains(Utf8Decode(body.original), ScriptTag)

\* text with the style block put before position h and the script block
\* before position b
WithBlocksAt(text, h, b) ==
    IF h < b
    THEN SubSeq(text, 1, h - 1) \o StyleTag \o SubSeq(text, h, b - 1) \o ScriptTag
            \o SubSeq(text, b, Len(text))
    ELSE SubSeq(text, 1, b - 1) \o ScriptTag \o SubSeq(text, b, h - 1) \o StyleTag
            \o SubSeq(text, h, Len(text))

\* C14: one process_html call on such a body returns a strictly longer body
\* that is the original with one style block right before its first '</head>'
\* and one script block right before its first '</body>', nothing else changed
C14_OneBlockEachBeforeClosers ==
    (WellFormedOriginal /\ body.applied = 1)
        => /\ Len(body.content) > Len(body.original)
           /\ Decodable(body.content)
           /\ Utf8Decode(body.content) =
                 WithBlocksAt(Utf8Decode(body.original),
                              FirstOfSet(Occurrences(Utf8Decode(body.original), HeadClose)),
                              FirstOfSet(Occurrences(Utf8Decode(body.original), BodyClose)))
           /\ Occurrences(Utf8Decode(body.content), StyleTag) =
                 {FirstOfSet(Occurrences(Utf8Decode(body.content), HeadClose))
                     - Len(StyleTag)}
           /\ Occurrences(Utf8Decode(body.content), ScriptTag) =
                 {FirstOfSet(Occurrences(Utf8Decode(body.content), BodyClose))
                     - Len(ScriptTag)}

\* processed once: a body with a '</body>' before two '</head>'
C14_Witness ==
    /\ WellFormedOriginal
    /\ body.applied = 1
    /\ Cardinality(Occurrences(Utf8Decode(body.original), HeadClose)) = 2
    /\ FirstOfSet(Occurrences(Utf8Decode(body.original), BodyClose))
          < FirstOfSet(Occurrences(Utf8Decode(body.original), HeadClose))

\* C15: process_html on bytes that are not UTF-8 returns them unchanged
C15_UndecodableUnchanged ==
    (body.op = "process_html" /\ ~Decodable(body.original))
        => body.content = body.original

\* processed: bytes that are not UTF-8 and hold a '</head>' and a '</body>'
C15_Witness ==
    /\ body.op = "process_html"
    /\ ~Decodable(body.original)
    /\ Contains(body.original, HeadClose)
    /\ Contains(body.original, BodyClose)

\* C16: n process_html calls leave n style blocks and n script blocks, so the
\* second call changes what the first returned
C16_BlocksAddUp ==
    (WellFormedOriginal /\ body.applied >= 1)
        => /\ Decodable(body.content)
           /\ Cardinality(Occurrences(Utf8Decode(body.content), StyleTag)) = body.applied
           /\ Cardinality(Occurrences(Utf8Decode(body.content), ScriptTag)) = body.applied
           /\ body.applied = 2 => body.content # ProcessHtml(body.original)

\* processed twice
C16_Witness ==
    /\ WellFormedOriginal
    /\ body.applied = 2
    /\ Len(body.content) > Len(ProcessHtml(body.original))

\* ------------------------------------------------------------------------
\* Properties of NetworkMonitor
\* ------------------------------------------------------------------------

\* the state is the one a track_response call for an id without a record has
\* just left
UnknownIdAnswered == last.op = "track_response" /\ ~last.known

\* C17: track_response for a request id that has no record changes nothing:
\* the records and the sample window are what they were before the call, and
\* get_stats reports the same total_requests, completed_requests and
\* total_bytes_transferred as it did before the call.
C17_UnknownIdIsNoOp ==
    UnknownIdAnswered =>
        /\ Monitor = last.before
        /\ GetStats(Monitor, now).total_requests = last.stats.total_requests
        /\ GetStats(Monitor, now).completed_requests = last.stats.completed_requests
        /\ GetStats(Monitor, now).total_bytes_transferred
               = last.stats.total_bytes_transferred

\* an unknown id was answered while the monitor held a completed record and
\* a pending one
C17_Witness ==
    /\ UnknownIdAnswered
    /\ last.response_size = 1500
    /\ response_times # << >>
    /\ GetStats(Monitor, now).total_bytes_transferred > 0


\* how many samples the window holds once n have been recorded
WindowLength(n) == IF n > WindowSize THEN WindowSize ELSE n

\* C18: the sample window never holds more than 1000 samples, and it holds
\* the most recent ones of all the samples track_response has recorded, in
\* the order they were recorded.
C18_WindowKeepsMostRecent ==
    /\ Len(response_times) <= WindowSize
    /\ response_times
          = SubSeq(samples, Len(samples) - WindowLength(Len(samples)) + 1,
                   Len(samples))

\* more samples were recorded than the window holds: the oldest one is gone
C18_Witness ==
    /\ Len(samples) > WindowSize
    /\ Len(response_times) = WindowSize
    /\ response_times[1] # samples[1]


\* the state is the one track_response(id, 200, 1500) has just left, called on
\* a monitor that held the pending record of id and nothing else
AnsweredOnce ==
    /\ last.op = "track_response"
    /\ last.known
    /\ last.status_code = 200
    /\ last.response_size = 1500
    /\ last.before.response_times = << >>
    /\ DOMAIN last.before.connections = {last.id}
    /\ last.before.connections[last.id].status = "pending"

\* what the clock read when track_request was called
RequestedAt == last.before.connections[last.id].start_time

\* C19 as stated: after track_request(id, ...) and track_response(id, 200,
\* 1500) on a fresh monitor get_stats reports completed_requests == 1 and
\* average_response_time > 0, whatever the clock read at the two calls.
C19_AveragePositive ==
    AnsweredOnce =>
        /\ GetStats(Monitor, now).completed_requests = 1
        /\ GetStats(Monitor, now).average_response_time.num > 0

\* C19 as amended: get_stats reports completed_requests == 1 and an
\* average_response_time equal to the difference of the two clock readings,
\* which is positive when the clock moved between the calls and 0 when it
\* did not.
C19_AverageIsElapsedTime ==
    AnsweredOnce =>
        /\ GetStats(Monitor, now).completed_requests = 1
        /\ GetStats(Monitor, now).average_response_time
              = [num |-> now - RequestedAt, den |-> 1]
        /\ now - RequestedAt >= 0
        /\ (GetStats(Monitor, now).average_response_time.num > 0)
              <=> (now > RequestedAt)

\* the request was made and answered at the same reading of a clock that
\* has moved since the monitor was made
C19_Witness ==
    /\ AnsweredOnce
    /\ now = RequestedAt
    /\ now > start_time


\* ------------------------------------------------------------------------
\* Properties of parallel callbacks
\* ------------------------------------------------------------------------

\* every callback has returned
AllDone == \A i \in DOMAIN threads : threads[i].pc = "done"

\* C20: callbacks dispatched in parallel lose no update of the shared
\* structures: once N request callbacks have completed, total_requests is N,
\* blocked_requests is the number of them that were blocked, and the monitor
\* holds a record for each.
C20_NoLostUpdate ==
    (threads # << >> /\ AllDone) =>
        /\ total_requests = Len(threads)
        /\ blocked_requests
              = Cardinality({i \in DOMAIN threads : threads[i].should_block})
        /\ DOMAIN connections = {threads[i].id : i \in DOMAIN threads}


\* ------------------------------------------------------------------------
\* Properties of the second sitting of the engine: priority, cache lifetime
\* ------------------------------------------------------------------------

\* both engines have just answered the same should_block call
BothCalled == last.op = "should_block" /\ twin # << >> /\ twin.returned # << >>

\* C21: two engines given the same add_rule calls, their rules differing in
\* priority only, return the same verdict and the same matched rule (its
\* position in the rule list) from every should_block call, through the
\* same exit.
C21_PriorityNeverConsulted ==
    BothCalled =>
        /\ twin.returned[1].blocked = last.blocked
        /\ twin.returned[1].rule = last.rule
        /\ twin.returned[1].exit = last.exit

\* a rule decided on both engines while a later rule of the same tier, of
\* the opposite action, had the higher priority on the second engine only
C21_Witness ==
    /\ BothCalled
    /\ last.rule = 1
    /\ Len(rules) = 2
    /\ rules[2].domain = rules[1].domain
    /\ rules[2].action # rules[1].action
    /\ rules[2].priority = rules[1].priority
    /\ twin.engine.rules[2].priority > twin.engine.rules[1].priority


\* C22: blocked_requests never exceeds total_requests, and the block_rate
\* get_stats reports is blocked_requests / total_requests when requests were
\* seen and 0 when none was, computed without a division by zero.
C22_BlockRate ==
    /\ blocked_requests <= total_requests
    /\ last.op = "get_stats" =>
          /\ ~last.stats.filtering.block_rate.raised
          /\ last.stats.filtering.block_rate.num * total_requests
                = blocked_requests * last.stats.filtering.block_rate.den
          /\ total_requests = 0 => last.stats.filtering.block_rate.num = 0

\* statistics read after two requests of which one was blocked
C22_Witness ==
    /\ last.op = "get_stats"
    /\ total_requests = 2
    /\ blocked_requests = 1
    /\ last.stats.filtering.block_rate = Quotient(1, 2)


\* the last should_block call was answered from the cache
Hit == Called /\ last.exit = "cache"

\* C23: a cache hit returns no rule and the verdict computed for the key at
\* some time in (now - cache_ttl, now], and leaves the cache and the expiry
\* of the entry as they were, the expiry still being that computation's
\* time + cache_ttl; any other exit returns the verdict of the lists and
\* rules as they stand now.
C23_StalenessWithinOneTtl ==
    /\ [](Hit => /\ last.rule = 0
                 /\ last.prev # << >>
                 /\ last.blocked = last.prev[1].blocked
                 /\ last.prev[1].at <= now
                 /\ now - last.prev[1].at < cache_ttl
                 /\ cache_expiry[CacheKey(last.method, last.url)]
                       = last.prev[1].at + cache_ttl)
    /\ []((Called /\ ~Hit) => last.blocked = ByPrecedence.blocked)
    /\ [][(last'.op = "should_block" /\ last'.exit = "cache")
            => (cache' = cache /\ cache_expiry' = cache_expiry)]_vars

\* a hit on an entry half a TTL old or older, returning what the lists and
\* rules of the moment no longer give
C23_Witness ==
    /\ Hit
    /\ now >= last.prev[1].at + 150
    /\ cache_expiry[CacheKey(last.method, last.url)] < now + cache_ttl
    /\ last.blocked # ByPrecedence.blocked


\* C24: no step removes a key from the cache or from the expiry map, and an
\* entry changes only in a should_block call for its own key that was not
\* answered from the cache; until then it stays, expired or not.
C24_CacheOnlyGrows ==
    [][/\ DOMAIN cache \subseteq DOMAIN cache'
       /\ DOMAIN cache_expiry \subseteq DOMAIN cache_expiry'
       /\ \A key \in DOMAIN cache \cap DOMAIN cache_expiry :
             (cache'[key] # cache[key] \/ cache_expiry'[key] # cache_expiry[key])
                => /\ last'.op = "should_block"
                   /\ last'.exit # "cache"
                   /\ CacheKey(last'.method, last'.url) = key]_vars

\* a should_block call has returned while the entry of another key, expired
\* since, is still in the cache
C24_Witness ==
    /\ Called
    /\ \E key \in DOMAIN cache \cap DOMAIN cache_expiry :
          /\ key # CacheKey(last.method, last.url)
          /\ cache_expiry[key] <= now


\* C26: the cache and the expiry map hold the same keys, after every
\* should_block call and in between.
C26_SameKeys == DOMAIN cache = DOMAIN cache_expiry

\* a should_block call has returned with two keys cached, one of them
\* expired
C26_Witness ==
    /\ Called
    /\ Cardinality(DOMAIN cache) = 2
    /\ \E key \in DOMAIN cache_expiry : cache_expiry[key] <= now


\* ------------------------------------------------------------------------
\* Properties of the response handler
\* ------------------------------------------------------------------------

\* the state is the one the response handler has just left, the flow having
\* had a response
HandledResponse == flow.op = "response" /\ flow.received # << >>

\* the value of the content-type field of the response as received, '' when
\* there is none
ReceivedContentType ==
    LET at == {i \in 1..Len(flow.received[1].headers) :
                  NameLower(flow.received[1].headers[i][1]) = "content-type"}
    IN  IF at = {} THEN ""
        ELSE flow.received[1].headers[CHOOSE i \in at : TRUE][2]

\* C25: after the response handler has run on a flow with a response, the
\* size stored for the request is the length of the body as received; the
\* body is the rewriter's output when the content type contains 'text/html'
\* and the body was not empty, and the body as received otherwise; and each
\* of the five security headers is there once, with its fixed value.
C25_ResponseHandled ==
    HandledResponse =>
        /\ flow.id \in DOMAIN connections =>
              /\ connections[flow.id].status = "completed"
              /\ connections[flow.id].response_size = Len(flow.received[1].content)
        /\ flow.response[1].content
              = IF /\ ContentTypeIn("text/html", ReceivedContentType)
                   /\ Len(flow.received[1].content) > 0
                THEN ProcessHtmlOf(flow.received[1].content)
                ELSE flow.received[1].content
        /\ \A k \in 1..Len(SecurityHeaders) :
              /\ Cardinality({i \in 1..Len(flow.response[1].headers) :
                                 NameLower(flow.response[1].headers[i][1])
                                    = NameLower(SecurityHeaders[k][1])}) = 1
              /\ \A i \in 1..Len(flow.response[1].headers) :
                    NameLower(flow.response[1].headers[i][1])
                          = NameLower(SecurityHeaders[k][1])
                       => flow.response[1].headers[i][2] = SecurityHeaders[k][2]

\* a page of a tracked request was rewritten, so that it is longer than the
\* size recorded, and the frame policy it came with was overwritten
C25_Witness ==
    /\ HandledResponse
    /\ flow.id \in DOMAIN connections
    /\ Len(flow.response[1].content) > connections[flow.id].response_size
    /\ HeaderIn(flow.received[1].headers, "X-Frame-Options")
    /\ HeaderGet(flow.received[1].headers, "X-Frame-Options") = "SAMEORIGIN"


\* ------------------------------------------------------------------------
\* Properties of rules with a domain
\* ------------------------------------------------------------------------

\* C27: the rule should_block returns as matched, when it has a domain set,
\* has the domain that is the lower-cased authority of the request.
C27_DomainRuleDecidesOwnDomainOnly ==
    (Called /\ last.rule # 0 /\ rules[last.rule].domain # "")
        => rules[last.rule].domain = UrlDomain(last.url)


\* ------------------------------------------------------------------------
\* Properties of track_request
\* ------------------------------------------------------------------------

\* the state is the one a track_request call has just left
Tracked == last.op = "track_request"

\* C28: track_request leaves under its id a pending record with the six
\* fields it sets and nothing of an earlier record, and leaves every other
\* record and the sample window alone; total_requests grows by one for an id
\* not seen before and stays for one seen; completed_requests never exceeds
\* total_requests.
C28_TrackRequestReplaces ==
    /\ GetStats(Monitor, now).completed_requests
          <= GetStats(Monitor, now).total_requests
    /\ Tracked =>
          /\ connections[last.id]
                = [url |-> ProbeURL, method |-> "GET", start_time |-> now,
                   bytes_sent |-> 0, bytes_received |-> 0, status |-> "pending"]
          /\ \A id \in DOMAIN last.before.connections \ {last.id} :
                connections[id] = last.before.connections[id]
          /\ response_times = last.before.response_times
          /\ GetStats(Monitor, now).total_requests
                = last.stats.total_requests + (IF last.known THEN 0 ELSE 1)

\* an id whose request was completed is tracked again: completed_requests
\* is one less than before and the bytes of its response are no longer
\* counted
C28_Witness ==
    /\ Tracked
    /\ last.known
    /\ last.before.connections[last.id].status = "completed"
    /\ GetStats(Monitor, now).completed_requests = last.stats.completed_requests - 1
    /\ GetStats(Monitor, now).total_bytes_transferred
          < last.stats.total_bytes_transferred



\* ---- the native messaging host ----

\* handle_message has just returned
Handled == host # << >> /\ host.pc = "send"

\* C29: handle_message returns a mapping with a boolean 'success' for every
\* message: known and unknown actions, no action, a domain action without a
\* domain, and a controller call that raises (then success is false and the
\* mapping carries an error text).
C29_ResponseHasSuccess ==
    Handled =>
        /\ host.response # << >>
        /\ host.response[1].success \in BOOLEAN
        /\ host.raised => ~host.response[1].success /\ host.response[1].key = "error"

\* the messages read whose response is on stdout or failed to be written
Answered == Len(host.stdout) + Cardinality(host.failed)

\* the messages read whose response is due before the next read
Due == IF host.pc \in {"handle", "send"} THEN host.read - 1 ELSE host.read

====
